---------------------------- MODULE Spec2Model ----------------------------
(***************************************************************************)
(* Perception-action loop of the game agent:                               *)
(*   - Actions (src/game_agent/actions.py): per-frame intent and the       *)
(*     flush()/release_all() reconciliation with the input device;         *)
(*   - run_script_loop / run_script_timed / main                           *)
(*     (src/game_agent/script_runner.py): the frame loop;                  *)
(*   - MultiTemplateTrackerCV (src/2dgametest/simple_match.py): the        *)
(*     hierarchical tracker and its find_all() cycle;                      *)
(*   - GameState (src/game_agent/game_state.py): the lock-guarded store.   *)
(* Each part has its own specification over the shared variables; the      *)
(* variables of the other parts stay at their initial values.              *)
(***************************************************************************)
EXTENDS Integers, Sequences, FiniteSets, TLC

VARIABLES
    actions,   \* the Actions instance: its six fields
    device,    \* the input device: keys physically down, button, calls of the last operation
    hist,      \* history of the Actions instance: last operation and the intent it saw
    runner,    \* the run loop: mode, position, stop_event, the frame's trace
    tracker,   \* MultiTemplateTrackerCV: configuration, per-template state, the cycle in progress
    store,     \* GameState and the threads using it
    service,   \* TrackerService: its fields, its tracking threads, its caller
    pacing,    \* the pacing step of a loop: budget, elapsed time, sleep
    scene,     \* one template followed over cycles on a full-size screen
    race       \* one Actions instance used by the runner thread and the controlling thread

vars == <<actions, device, hist, runner, tracker, store, service, pacing, scene, race>>

(***************************************************************************)
(*                                Actions                                  *)
(***************************************************************************)

\* The keys the declaration methods can ask for (actions.py:45-63).
Keys == {"a", "d", "space", "s", "b"}

\* Bound: the longest dash queue a policy builds within one frame.
MaxDashes == 2

\* None for _mouse_target.
None == <<>>

\* Arguments scripts pass to attack_at, in half pixels (so that int() has
\* something to truncate): (800.5, 400.0) and (-1.5, 2.5).
AimInputs == {<<1601, 800>>, <<-3, 5>>}

\* Python's int() on a number given in half units: truncation toward zero.
PyInt(h) == IF h >= 0 THEN h \div 2 ELSE -((-h) \div 2)

\* One call on the input backend (or the dash's time.sleep).
KeyCall(fn, k) == [fn |-> fn, key |-> k, at |-> None]
MoveCall(p) == [fn |-> "moveTo", key |-> "", at |-> p]
PlainCall(fn) == [fn |-> fn, key |-> "", at |-> None]

\* The calls of a loop over a Python set come in no specified order: the log is
\* a sequence of groups, each group the set of calls of one loop (a single call
\* is a group of one; an empty loop logs nothing).
One(c) == <<{c}>>
Loop(fn, ks) == IF ks = {} THEN <<>> ELSE <<{KeyCall(fn, k) : k \in ks}>>

\* Actions.__init__
ActionsInit ==
    [held_keys |-> {}, mouse_is_down |-> FALSE, desired_keys |-> {},
     mouse_target |-> None, want_attack |-> FALSE, queued_dashes |-> <<>>]

\* The device: the keys and the button physically down, the calls of the last
\* operation, and whether one of them asked for what the device was already
\* in (a key-up of a key that is up, a key-down or press of a key that is
\* down, the same for the button).
DeviceInit == [keys |-> {}, button |-> FALSE, calls |-> <<>>, redundant |-> FALSE]

\* A state of the instance together with the device: what flush() and
\* release_all() transform.  s.a is the Actions record, s.d the device.
Emit(d, groups) == [d EXCEPT !.calls = d.calls \o groups]

\* pydirectinput.keyDown / keyUp / press (press = down then up) / mouseDown / mouseUp
DevKeyDown(d, k) ==
    [Emit(d, One(KeyCall("keyDown", k))) EXCEPT !.keys = d.keys \cup {k},
                                                !.redundant = d.redundant \/ k \in d.keys]
DevKeyUp(d, k) ==
    [Emit(d, One(KeyCall("keyUp", k))) EXCEPT !.keys = d.keys \ {k},
                                              !.redundant = d.redundant \/ k \notin d.keys]
DevPress(d, k) ==
    [Emit(d, One(KeyCall("press", k))) EXCEPT !.keys = d.keys \ {k},
                                              !.redundant = d.redundant \/ k \in d.keys]
DevKeysUp(d, ks) ==
    [Emit(d, Loop("keyUp", ks)) EXCEPT !.keys = d.keys \ ks,
                                       !.redundant = d.redundant \/ ~(ks \subseteq d.keys)]
DevKeysDown(d, ks) ==
    [Emit(d, Loop("keyDown", ks)) EXCEPT !.keys = d.keys \cup ks,
                                         !.redundant = d.redundant \/ ks \cap d.keys # {}]
DevMoveTo(d, p) == Emit(d, One(MoveCall(p)))
DevMouseDown(d) ==
    [Emit(d, One(PlainCall("mouseDown"))) EXCEPT !.button = TRUE,
                                                 !.redundant = d.redundant \/ d.button]
DevMouseUp(d) ==
    [Emit(d, One(PlainCall("mouseUp"))) EXCEPT !.button = FALSE,
                                               !.redundant = d.redundant \/ ~d.button]
DevSleep(d) == Emit(d, One(PlainCall("sleep")))

\* actions.py:113
DashKey(direction) == IF direction = "left" THEN "a" ELSE "d"

\* Mutant of FlushDash: the dash taken is the last queued one.
FlushDashLast(s) ==
    IF s.a.queued_dashes = <<>> THEN s
    ELSE LET key == DashKey(s.a.queued_dashes[Len(s.a.queued_dashes)])
             rel == key \in s.a.held_keys
             a1 == IF rel THEN [s.a EXCEPT !.held_keys = @ \ {key}] ELSE s.a
             d1 == IF rel THEN DevKeyUp(s.d, key) ELSE s.d
         IN [a |-> a1, d |-> DevPress(DevSleep(DevPress(d1, key)), key)]

\* A second mutant of FlushDash: the released dash key stays in the held set.
FlushDashKeepsHeld(s) ==
    IF s.a.queued_dashes = <<>> THEN s
    ELSE LET key == DashKey(s.a.queued_dashes[1])
             rel == key \in s.a.held_keys
             d1 == IF rel THEN DevKeyUp(s.d, key) ELSE s.d
         IN [a |-> s.a, d |-> DevPress(DevSleep(DevPress(d1, key)), key)]

\* flush() step 1 (actions.py:111-123): at most one dash, the first queued.
FlushDash(s) ==
    IF s.a.queued_dashes = <<>> THEN s
    ELSE LET key == DashKey(s.a.queued_dashes[1])
             rel == key \in s.a.held_keys
             a1 == IF rel THEN [s.a EXCEPT !.held_keys = @ \ {key}] ELSE s.a
             d1 == IF rel THEN DevKeyUp(s.d, key) ELSE s.d
         IN [a |-> a1, d |-> DevPress(DevSleep(DevPress(d1, key)), key)]

\* Mutant of FlushReconcile: every desired key is pressed again each frame.
FlushReconcileRepress(s) ==
    LET keys_to_release == s.a.held_keys \ s.a.desired_keys
        keys_to_press == s.a.desired_keys
    IN [a |-> [s.a EXCEPT !.held_keys = s.a.desired_keys],
        d |-> DevKeysDown(DevKeysUp(s.d, keys_to_release), keys_to_press)]

\* flush() step 2 (actions.py:129-138): release what is no longer wanted, press
\* what is newly wanted, held = desired.
FlushReconcile(s) ==
    LET keys_to_release == s.a.held_keys \ s.a.desired_keys
        keys_to_press == s.a.desired_keys \ s.a.held_keys
    IN [a |-> [s.a EXCEPT !.held_keys = s.a.desired_keys],
        d |-> DevKeysDown(DevKeysUp(s.d, keys_to_release), keys_to_press)]

\* flush() step 3 (actions.py:141-142)
FlushAim(s) ==
    IF s.a.mouse_target # None THEN [s EXCEPT !.d = DevMoveTo(s.d, s.a.mouse_target)]
    ELSE s

\* A second mutant of FlushAttack: the button is pressed in every frame that
\* asks for the attack.
FlushAttackRepress(s) ==
    IF s.a.want_attack
    THEN [a |-> [s.a EXCEPT !.mouse_is_down = TRUE], d |-> DevMouseDown(s.d)]
    ELSE IF s.a.mouse_is_down
    THEN [a |-> [s.a EXCEPT !.mouse_is_down = FALSE], d |-> DevMouseUp(s.d)]
    ELSE s

\* Mutant of FlushAttack: the button is pressed and released without the
\* flag being updated.
FlushAttackNoFlag(s) ==
    IF s.a.want_attack /\ ~s.a.mouse_is_down
    THEN [a |-> s.a, d |-> DevMouseDown(s.d)]
    ELSE IF ~s.a.want_attack /\ s.a.mouse_is_down
    THEN [a |-> s.a, d |-> DevMouseUp(s.d)]
    ELSE s

\* flush() step 4 (actions.py:145-150)
FlushAttack(s) ==
    IF s.a.want_attack /\ ~s.a.mouse_is_down
    THEN [a |-> [s.a EXCEPT !.mouse_is_down = TRUE], d |-> DevMouseDown(s.d)]
    ELSE IF ~s.a.want_attack /\ s.a.mouse_is_down
    THEN [a |-> [s.a EXCEPT !.mouse_is_down = FALSE], d |-> DevMouseUp(s.d)]
    ELSE s

\* Mutant of FlushReset: the dash queue is not cleared.
FlushResetKeepsDashes(s) ==
    [s EXCEPT !.a = [s.a EXCEPT !.desired_keys = {}, !.mouse_target = None,
                                !.want_attack = FALSE]]

\* flush() step 5 (actions.py:153-156)
FlushReset(s) ==
    [s EXCEPT !.a = [s.a EXCEPT !.desired_keys = {}, !.mouse_target = None,
                                !.want_attack = FALSE, !.queued_dashes = <<>>]]

\* Mutant of flush: the button is handled before the pointer is moved.
flushButtonFirst(s) == FlushReset(FlushAim(FlushAttack(FlushReconcile(FlushDash(s)))))

\* Actions.flush (actions.py:95-156)
flush(s) == FlushReset(FlushAttack(FlushAim(FlushReconcile(FlushDash(s)))))

\* Mutant of release_all: the held set is not cleared.
ReleaseAllNoClear(s) ==
    LET d1 == DevKeysUp(s.d, s.a.held_keys)
        d2 == IF s.a.mouse_is_down THEN DevMouseUp(d1) ELSE d1
    IN [a |-> [s.a EXCEPT !.mouse_is_down = FALSE], d |-> d2]

\* Actions.release_all (actions.py:158-165)
release_all(s) ==
    LET d1 == DevKeysUp(s.d, s.a.held_keys)
        d2 == IF s.a.mouse_is_down THEN DevMouseUp(d1) ELSE d1
    IN [a |-> [s.a EXCEPT !.mouse_is_down = FALSE, !.held_keys = {}], d |-> d2]

\* Mutant of move_left: the key is taken as held at once.
MoveLeftHolds(a) == [a EXCEPT !.desired_keys = @ \cup {"a"}, !.held_keys = @ \cup {"a"}]

\* The declaration methods (actions.py:45-89).
move_left(a) == [a EXCEPT !.desired_keys = @ \cup {"a"}]
move_right(a) == [a EXCEPT !.desired_keys = @ \cup {"d"}]
fly_up(a) == [a EXCEPT !.desired_keys = @ \cup {"space"}]
move_down(a) == [a EXCEPT !.desired_keys = @ \cup {"s"}]
move_down_fast(a) == [a EXCEPT !.desired_keys = @ \cup {"b"}]
attack_at(a, x, y) == [a EXCEPT !.mouse_target = <<PyInt(x), PyInt(y)>>, !.want_attack = TRUE]
dash_left(a) == [a EXCEPT !.queued_dashes = Append(@, "left")]
dash_right(a) == [a EXCEPT !.queued_dashes = Append(@, "right")]

\* History of the instance, for stating what an operation did:
\*   hist.op         the last operation ("init", "declare", "flush", "release_all");
\*   hist.before     the Actions record flush()/release_all() started from
\*                   (ActionsInit after any other operation);
\*   hist.last_keys  the keys declared in the most recent flushed frame, {} when
\*                   no frame came before (at the start, after release_all);
\*   hist.prev_keys  at a state reached by flush(): the keys declared in the
\*                   frame before the flushed one.
HistInit == [op |-> "init", before |-> ActionsInit, last_keys |-> {}, prev_keys |-> {}]

\* A freshly started log for the operation about to run.
Fresh(d) == [d EXCEPT !.calls = <<>>, !.redundant = FALSE]

\* A declaration call: intent only.
Declare(a2) ==
    /\ actions' = a2
    /\ device' = Fresh(device)
    /\ hist' = [hist EXCEPT !.op = "declare", !.before = ActionsInit, !.prev_keys = {}]

MoveLeft == Declare(move_left(actions))
MoveRight == Declare(move_right(actions))
FlyUp == Declare(fly_up(actions))
MoveDown == Declare(move_down(actions))
MoveDownFast == Declare(move_down_fast(actions))
AttackAt == \E p \in AimInputs : Declare(attack_at(actions, p[1], p[2]))
DashLeft ==
    /\ Len(actions.queued_dashes) < MaxDashes
    /\ Declare(dash_left(actions))
DashRight ==
    /\ Len(actions.queued_dashes) < MaxDashes
    /\ Declare(dash_right(actions))

\* One frame's flush().
DoFlush ==
    LET s == flush([a |-> actions, d |-> Fresh(device)])
    IN /\ actions' = s.a
       /\ device' = s.d
       /\ hist' = [op |-> "flush", before |-> actions,
                   last_keys |-> actions.desired_keys, prev_keys |-> hist.last_keys]

\* release_all(): ends the run of frames.
DoReleaseAll ==
    LET s == release_all([a |-> actions, d |-> Fresh(device)])
    IN /\ actions' = s.a
       /\ device' = s.d
       /\ hist' = [op |-> "release_all", before |-> actions,
                   last_keys |-> {}, prev_keys |-> {}]

\* How often call c was issued by the last operation.
Count(c) == Cardinality({i \in DOMAIN device.calls : c \in device.calls[i]})

\* How many calls of function fn the last operation issued.
CountFn(fn) ==
    LET n[i \in 0..Len(device.calls)] ==
            IF i = 0 THEN 0
            ELSE n[i - 1] + Cardinality({c \in device.calls[i] : c.fn = fn})
    IN n[Len(device.calls)]

(***************************************************************************)
(*          The run loop: run_script_loop, run_script_timed, main          *)
(***************************************************************************)

\* Bound: the frames one run of the loop executes.
MaxFrames == 3

\* Default fps of run_script_loop and of run_script_timed.
LoopFps == 60
TimedFps == 30

\* The value standing for "time.sleep was not called".
NoSleep == -1

\* Mutant of PacingSleep: the sleep is requested whatever its sign.
PacingSleepAlways(frame_time, elapsed) == frame_time - elapsed

\* sleep_time = frame_time - elapsed; if sleep_time > 0: time.sleep(sleep_time)
\* (script_runner.py:97-100, 149-152; tracker_service.py:96-99): the argument
\* of time.sleep, or NoSleep.
PacingSleep(frame_time, elapsed) ==
    LET sleep_time == frame_time - elapsed
    IN IF sleep_time > 0 THEN sleep_time ELSE NoSleep

\* frame_time = 1.0 / fps, in microseconds.
FrameTime(mode) == 1000000 \div (IF mode = "loop" THEN LoopFps ELSE TimedFps)

\* time.time() - loop_start at the pacing step, in microseconds: no time, less
\* than a frame, exactly a frame, more than a frame.
Elapsed(mode) == {0, FrameTime(mode) - 1, FrameTime(mode), FrameTime(mode) + 5000}

\* What a behaviour script's run() calls in one frame, as in test_scripts:
\* dodge_enemy.py (nothing seen; move and shoot) and 1empressscript.py
\* (move, dash, fly, shoot).  A call is <<method>> or <<"attack_at", x, y>>.
PolicyCalls ==
    { <<>>,
      << <<"move_right">>, <<"attack_at", 1601, 800>> >>,
      << <<"move_left">>, <<"dash_left">>, <<"fly_up">>, <<"attack_at", -3, 5>> >>,
      << <<"move_right">>, <<"dash_right">> >> }

\* One declaration call on the Actions record.
CallMethod(a, c) ==
    CASE c[1] = "move_left" -> move_left(a)
      [] c[1] = "move_right" -> move_right(a)
      [] c[1] = "fly_up" -> fly_up(a)
      [] c[1] = "move_down" -> move_down(a)
      [] c[1] = "move_down_fast" -> move_down_fast(a)
      [] c[1] = "attack_at" -> attack_at(a, c[2], c[3])
      [] c[1] = "dash_left" -> dash_left(a)
      [] c[1] = "dash_right" -> dash_right(a)

\* The first n calls of cs, in order.
ApplyCalls(a, cs, n) ==
    LET f[i \in 0..n] == IF i = 0 THEN a ELSE CallMethod(f[i - 1], cs[i])
    IN f[n]

\* runner.mode    "loop": main() running run_script_loop; "timed": run_script_timed
\* runner.pc      "top" (loop condition), "policy" (inside script_module.run),
\*                "flush" (before actions.flush()), "pace" (after it),
\*                "finally" (the loop was left, release_all() is next), "done"
\* runner.stop_event   the threading.Event of run_script_timed
\* runner.frame_count  as in the code
\* runner.exit    why the loop was left: "none", "cancel", "interrupt", "error"
\* runner.trace   the steps taken in the current frame
\* runner.policy_error  the current frame's policy raised (and was caught)
\* runner.errors  whether an earlier frame's policy raised
\* runner.intent  the intent present when the policy call ended
\* runner.slept   the argument of the frame's time.sleep, -1 when it was not called
\* runner.released  calls of release_all() made on leaving the loop
\* runner.frames_after_stop   frames begun while stop_event was set
\* runner.flushes_after_stop  calls of flush() completed while stop_event was set
RunnerInit(mode) ==
    [mode |-> mode, pc |-> "top", stop_event |-> FALSE, frame_count |-> 0,
     exit |-> "none", trace |-> <<>>, policy_error |-> FALSE, errors |-> FALSE,
     intent |-> ActionsInit, slept |-> -1, released |-> 0,
     frames_after_stop |-> 0, flushes_after_stop |-> 0]

\* Mutant of LeaveLoop: an exception out of run_script_loop skips the cleanup.
LeaveLoopNoFinally(mode, reason) ==
    IF mode = "loop" /\ reason = "error" THEN "done" ELSE "finally"

\* Where control goes when the loop is left.  run_script_timed: its finally
\* block (script_runner.py:153-155), on every way out.  run_script_loop: it
\* returns on KeyboardInterrupt (102-103) and lets any other exception
\* propagate, both into main()'s finally block (201-203).
LeaveLoop(mode, reason) == "finally"

\* Mutant of LoopCondition: the bounded loop does not look at stop_event.
LoopConditionTrue(r) == TRUE

\* The loop condition: while True (script_runner.py:75) and
\* while not stop_event.is_set() (script_runner.py:128).
LoopCondition(r) == IF r.mode = "timed" THEN ~r.stop_event ELSE TRUE

\* The loop condition is evaluated: the loop is left, or the next frame begins.
LoopTop ==
    /\ UNCHANGED <<tracker, store, service, pacing, scene, race>>
    /\ runner.pc = "top"
    /\ IF ~LoopCondition(runner)
       THEN runner' = [runner EXCEPT !.pc = LeaveLoop(runner.mode, "cancel"), !.exit = "cancel"]
       ELSE /\ runner.frame_count < MaxFrames
            /\ runner' = [runner EXCEPT !.pc = "policy", !.trace = <<>>,
                                        !.policy_error = FALSE, !.slept = -1,
                                        !.frames_after_stop =
                                            IF runner.stop_event THEN @ + 1 ELSE @,
                                        !.errors = runner.errors \/ runner.policy_error]
    /\ UNCHANGED <<actions, device, hist>>

\* script_module.run(game_state, actions) returns.
PolicyReturn ==
    /\ UNCHANGED <<tracker, store, service, pacing, scene, race>>
    /\ runner.pc = "policy"
    /\ \E cs \in PolicyCalls :
          LET a2 == ApplyCalls(actions, cs, Len(cs))
          IN /\ Declare(a2)
             /\ runner' = [runner EXCEPT !.pc = "flush", !.trace = <<"policy">>, !.intent = a2]

\* Mutant of PolicyCaught: the error ends the loop.
PolicyNotCaught(r, a2) ==
    [r EXCEPT !.pc = LeaveLoop(r.mode, "error"), !.exit = "error",
              !.trace = <<"policy">>, !.policy_error = TRUE, !.intent = a2]

\* except Exception as e: print(...) (script_runner.py:80-81, 134-135): the
\* frame goes on to flush().
PolicyCaught(r, a2) ==
    [r EXCEPT !.pc = "flush", !.trace = <<"policy">>, !.policy_error = TRUE, !.intent = a2]

\* script_module.run raises after some of its calls (4geminiscript.py calls
\* move_left(0.1), a TypeError, after attack_at).
PolicyRaise ==
    /\ UNCHANGED <<tracker, store, service, pacing, scene, race>>
    /\ runner.pc = "policy"
    /\ \E cs \in PolicyCalls : \E n \in 0..Len(cs) :
          LET a2 == ApplyCalls(actions, cs, n)
          IN /\ Declare(a2)
             /\ runner' = PolicyCaught(runner, a2)

\* actions.flush() returns; frame_count += 1.
FlushOk ==
    /\ UNCHANGED <<tracker, store, service, pacing, scene, race>>
    /\ runner.pc = "flush"
    /\ DoFlush
    /\ runner' = [runner EXCEPT !.pc = "pace", !.trace = Append(@, "flush"),
                                !.frame_count = @ + 1,
                                !.flushes_after_stop =
                                    IF runner.stop_event THEN @ + 1 ELSE @]

\* The first n of flush()'s five steps.
FlushSteps(s, n) ==
    CASE n = 0 -> s
      [] n = 1 -> FlushDash(s)
      [] n = 2 -> FlushReconcile(FlushDash(s))
      [] n = 3 -> FlushAim(FlushReconcile(FlushDash(s)))
      [] n = 4 -> FlushAttack(FlushAim(FlushReconcile(FlushDash(s))))

\* actions.flush() raises (an input backend call fails) after n of its steps:
\* the exception leaves the loop body.
FlushRaise ==
    /\ UNCHANGED <<tracker, store, service, pacing, scene, race>>
    /\ runner.pc = "flush"
    /\ \E n \in 0..4 :
          LET s == FlushSteps([a |-> actions, d |-> Fresh(device)], n)
          IN /\ actions' = s.a
             /\ device' = s.d
             /\ hist' = [op |-> "flush_raised", before |-> actions,
                         last_keys |-> {}, prev_keys |-> {}]
    /\ runner' = [runner EXCEPT !.pc = LeaveLoop(runner.mode, "error"), !.exit = "error",
                                !.trace = Append(@, "flush")]

\* Maintain FPS (script_runner.py:96-100, 148-152).
Pace ==
    /\ UNCHANGED <<tracker, store, service, pacing, scene, race>>
    /\ runner.pc = "pace"
    /\ \E elapsed \in Elapsed(runner.mode) :
          runner' = [runner EXCEPT !.pc = "top", !.trace = Append(@, "pace"),
                                   !.slept = PacingSleep(FrameTime(runner.mode), elapsed)]
    /\ UNCHANGED <<actions, device, hist>>

\* KeyboardInterrupt while the loop runs: at the loop top, inside the policy
\* (after some of its calls), before flush() or while pacing.
Interrupt ==
    /\ UNCHANGED <<tracker, store, service, pacing, scene, race>>
    /\ runner.pc \in {"top", "policy", "flush", "pace"}
    /\ IF runner.pc = "policy"
       THEN \E cs \in PolicyCalls : \E n \in 0..Len(cs) : Declare(ApplyCalls(actions, cs, n))
       ELSE UNCHANGED <<actions, device, hist>>
    /\ runner' = [runner EXCEPT !.pc = LeaveLoop(runner.mode, "interrupt"), !.exit = "interrupt"]

\* Another thread sets stop_event (combat_learner.py:333, 339).
SetStop ==
    /\ UNCHANGED <<tracker, store, service, pacing, scene, race>>
    /\ runner.mode = "timed"
    /\ runner.pc # "done"
    /\ ~runner.stop_event
    /\ runner' = [runner EXCEPT !.stop_event = TRUE]
    /\ UNCHANGED <<actions, device, hist>>

\* finally: actions.release_all() (script_runner.py:153-155 and 201-203).
Finally ==
    /\ UNCHANGED <<tracker, store, service, pacing, scene, race>>
    /\ runner.pc = "finally"
    /\ DoReleaseAll
    /\ runner' = [runner EXCEPT !.pc = "done", !.released = @ + 1]

(***************************************************************************)
(*              MultiTemplateTrackerCV: _match_one and find_all            *)
(***************************************************************************)

\* The monitor (simple_match.py:81-83), in pixels.
ScreenW == 4
ScreenH == 2

\* Two templates: their sizes as cv.imread returns them (simple_match.py:94).
Templates == {0, 1}
TplW(t) == IF t = 0 THEN 2 ELSE 4
TplH(t) == IF t = 0 THEN 2 ELSE 1

\* Scores cv.matchTemplate can give, in hundredths: below every threshold,
\* between the relaxed and the primary threshold, at the primary threshold.
Scores == {70, 80, 85}

\* Frames are told apart by their grab number modulo FrameIds.
FrameIds == 2

\* The constructor's arguments (simple_match.py:58-68), downscale_factor in
\* percent: the service's defaults; --accurate of script_runner.py; pyramid
\* with the full scan kept, sequential; skip_full_scan asked without pyramid,
\* in colour, sequential.
TrackerArgs ==
    { [confidence |-> 85, search_margin |-> 1, max_workers |-> 2, use_grayscale |-> TRUE,
       method |-> "TM_CCOEFF_NORMED", downscale_factor |-> 50, skip_full_scan |-> TRUE],
      [confidence |-> 85, search_margin |-> 1, max_workers |-> 2, use_grayscale |-> TRUE,
       method |-> "TM_CCOEFF_NORMED", downscale_factor |-> 100, skip_full_scan |-> FALSE],
      [confidence |-> 85, search_margin |-> 1, max_workers |-> 0, use_grayscale |-> TRUE,
       method |-> "TM_CCOEFF_NORMED", downscale_factor |-> 50, skip_full_scan |-> FALSE],
      [confidence |-> 85, search_margin |-> 1, max_workers |-> 0, use_grayscale |-> FALSE,
       method |-> "TM_CCOEFF_NORMED", downscale_factor |-> 100, skip_full_scan |-> TRUE] }

\* int(n * downscale_factor), int(n * (1.0 / downscale_factor)), max, min
Down(n, factor) == (n * factor) \div 100
Up(n, factor) == (n * 100) \div factor
Max(a, b) == IF a >= b THEN a ELSE b
Min(a, b) == IF a <= b THEN a ELSE b

\* Mutant of TrackerConfig: the full scan is skipped whenever that is asked.
TrackerConfigSkipAsAsked(args) ==
    [confidence |-> args.confidence,
     search_margin |-> args.search_margin,
     method |-> args.method,
     use_grayscale |-> args.use_grayscale,
     downscale_factor |-> args.downscale_factor,
     use_pyramid |-> args.downscale_factor < 100,
     skip_full_scan |-> args.skip_full_scan,
     screen_w |-> ScreenW,
     screen_h |-> ScreenH,
     screen_w_small |-> Down(ScreenW, args.downscale_factor),
     screen_h_small |-> Down(ScreenH, args.downscale_factor),
     max_workers |-> args.max_workers,
     executor |-> args.max_workers > 0]

\* MultiTemplateTrackerCV.__init__ (simple_match.py:72-87): the configuration.
TrackerConfig(args) ==
    [confidence |-> args.confidence,
     search_margin |-> args.search_margin,
     method |-> args.method,
     use_grayscale |-> args.use_grayscale,
     downscale_factor |-> args.downscale_factor,
     use_pyramid |-> args.downscale_factor < 100,
     skip_full_scan |-> args.skip_full_scan /\ args.downscale_factor < 100,
     screen_w |-> ScreenW,
     screen_h |-> ScreenH,
     screen_w_small |-> Down(ScreenW, args.downscale_factor),
     screen_h_small |-> Down(ScreenH, args.downscale_factor),
     max_workers |-> args.max_workers,
     executor |-> args.max_workers > 0]

\* TemplateState as __init__ builds it (simple_match.py:90-110).
TemplateInit(t, factor) ==
    [id |-> t, w |-> TplW(t), h |-> TplH(t),
     w_small |-> Max(1, Down(TplW(t), factor)),
     h_small |-> Max(1, Down(TplH(t), factor)),
     last_pos |-> None, found |-> FALSE]

\* An image: the grab it comes from, and what was made of it.
Image(src, kind) == [src |-> src, kind |-> kind]
NoImage == [src |-> -1, kind |-> "None"]

\* cv.matchTemplate + cv.minMaxLoc on a region of rw x rh and a template of
\* w x h: any value and place for the minimum and for the maximum.  The
\* minimum is kept to one value: no caller in the repository asks for TM_SQDIFF.
MinMaxLoc(rw, rh, w, h) ==
    {[min_val |-> 0, min_loc |-> <<0, 0>>, max_val |-> s, max_loc |-> <<x, y>>] :
        s \in Scores, x \in 0..(rw - w), y \in 0..(rh - h)}

\* _best_match (simple_match.py:138-157): score where higher is better.
best_match(mm, method) ==
    IF method \in {"TM_SQDIFF", "TM_SQDIFF_NORMED"}
    THEN [score |-> 100 - mm.min_val, x |-> mm.min_loc[1], y |-> mm.min_loc[2]]
    ELSE [score |-> mm.max_val, x |-> mm.max_loc[1], y |-> mm.max_loc[2]]

\* What _best_match can return on a region of rw x rh.
BestMatches(rw, rh, w, h, method) == {best_match(mm, method) : mm \in MinMaxLoc(rw, rh, w, h)}

\* MatchResult (simple_match.py:30-39), with the log of the _best_match calls
\* that led to it: each entry is the tier, the image and the region of it
\* that was searched (x, y, width, height), and the score.
Result(t, found, x, y, score, method, log) ==
    [id |-> t.id, found |-> found, x |-> x, y |-> y, w |-> t.w, h |-> t.h,
     score |-> score, method |-> method, log |-> log]

Logged(log, tier, image, region, score) ==
    Append(log, [tier |-> tier, image |-> image, region |-> region, score |-> score])

\* simple_match.py:239-245
NotFound(t, log) == Result(t, FALSE, 0, 0, 0, "Not Found", log)

\* The coarse threshold confidence * 0.9 (simple_match.py:201).
CoarseNum == 9
CoarseDen == 10

\* refine_margin = max(20, int(50 / downscale_factor)) (simple_match.py:208)
RefineFloor == 20
RefineSpan == 50
RefineMargin(cfg) == Max(RefineFloor, (RefineSpan * 100) \div cfg.downscale_factor)

\* Mutant of FullTier: a full-scan hit that follows a pyramid attempt is
\* tagged Pyramid.
FullTierMistag(t, cfg, frame, log) ==
    IF ~cfg.skip_full_scan /\ cfg.screen_w >= t.w /\ cfg.screen_h >= t.h
    THEN UNION { IF m.score >= cfg.confidence
                 THEN {Result(t, TRUE, m.x, m.y, m.score,
                              IF cfg.use_pyramid THEN "Pyramid" ELSE "Full Scan",
                              Logged(log, "full", frame, <<0, 0, cfg.screen_w, cfg.screen_h>>, m.score))}
                 ELSE {NotFound(t, Logged(log, "full", frame, <<0, 0, cfg.screen_w, cfg.screen_h>>, m.score))}
                 : m \in BestMatches(cfg.screen_w, cfg.screen_h, t.w, t.h, cfg.method) }
    ELSE {NotFound(t, log)}

\* Full scan fallback (simple_match.py:227-245): the results it can end in.
FullTier(t, cfg, frame, log) ==
    IF ~cfg.skip_full_scan /\ cfg.screen_w >= t.w /\ cfg.screen_h >= t.h
    THEN UNION { IF m.score >= cfg.confidence
                 THEN {Result(t, TRUE, m.x, m.y, m.score, "Full Scan",
                              Logged(log, "full", frame, <<0, 0, cfg.screen_w, cfg.screen_h>>, m.score))}
                 ELSE {NotFound(t, Logged(log, "full", frame, <<0, 0, cfg.screen_w, cfg.screen_h>>, m.score))}
                 : m \in BestMatches(cfg.screen_w, cfg.screen_h, t.w, t.h, cfg.method) }
    ELSE {NotFound(t, log)}

\* Mutant of RefineTier: the refinement is accepted at the relaxed threshold.
RefineTierRelaxed(t, cfg, frame, log, x_full, y_full) ==
    LET refine_margin == RefineMargin(cfg)
        roi_x == Max(0, x_full - refine_margin)
        roi_y == Max(0, y_full - refine_margin)
        roi_w == Min(t.w + refine_margin * 2, cfg.screen_w - roi_x)
        roi_h == Min(t.h + refine_margin * 2, cfg.screen_h - roi_y)
    IN IF roi_w >= t.w /\ roi_h >= t.h
       THEN UNION { IF m.score * CoarseDen >= cfg.confidence * CoarseNum
                    THEN {Result(t, TRUE, roi_x + m.x, roi_y + m.y, m.score, "Pyramid",
                                 Logged(log, "refine", frame, <<roi_x, roi_y, roi_w, roi_h>>, m.score))}
                    ELSE FullTier(t, cfg, frame, Logged(log, "refine", frame, <<roi_x, roi_y, roi_w, roi_h>>, m.score))
                    : m \in BestMatches(roi_w, roi_h, t.w, t.h, cfg.method) }
       ELSE FullTier(t, cfg, frame, log)

\* Pyramid step 3 (simple_match.py:208-224): refine around the scaled-up hit.
RefineTier(t, cfg, frame, log, x_full, y_full) ==
    LET refine_margin == RefineMargin(cfg)
        roi_x == Max(0, x_full - refine_margin)
        roi_y == Max(0, y_full - refine_margin)
        roi_w == Min(t.w + refine_margin * 2, cfg.screen_w - roi_x)
        roi_h == Min(t.h + refine_margin * 2, cfg.screen_h - roi_y)
    IN IF roi_w >= t.w /\ roi_h >= t.h
       THEN UNION { IF m.score >= cfg.confidence
                    THEN {Result(t, TRUE, roi_x + m.x, roi_y + m.y, m.score, "Pyramid",
                                 Logged(log, "refine", frame, <<roi_x, roi_y, roi_w, roi_h>>, m.score))}
                    ELSE FullTier(t, cfg, frame, Logged(log, "refine", frame, <<roi_x, roi_y, roi_w, roi_h>>, m.score))
                    : m \in BestMatches(roi_w, roi_h, t.w, t.h, cfg.method) }
       ELSE FullTier(t, cfg, frame, log)

\* Pyramid matching (simple_match.py:195-205): coarse match on the downscaled
\* frame against the relaxed threshold.
PyramidTier(t, cfg, frame, frame_small, log) ==
    IF cfg.use_pyramid /\ frame_small # NoImage
    THEN IF cfg.screen_w_small >= t.w_small /\ cfg.screen_h_small >= t.h_small
         THEN UNION { IF m.score * CoarseDen >= cfg.confidence * CoarseNum
                      THEN RefineTier(t, cfg, frame, Logged(log, "coarse", frame_small,
                                             <<0, 0, cfg.screen_w_small, cfg.screen_h_small>>, m.score),
                                      Up(m.x, cfg.downscale_factor), Up(m.y, cfg.downscale_factor))
                      ELSE FullTier(t, cfg, frame, Logged(log, "coarse", frame_small,
                                             <<0, 0, cfg.screen_w_small, cfg.screen_h_small>>, m.score))
                      : m \in BestMatches(cfg.screen_w_small, cfg.screen_h_small,
                                          t.w_small, t.h_small, cfg.method) }
         ELSE FullTier(t, cfg, frame, log)
    ELSE FullTier(t, cfg, frame, log)

\* A second mutant of RoiTier: the region is not clipped at the right and
\* bottom edges of the frame.
RoiTierNoClip(t, cfg, frame, frame_small) ==
    IF t.last_pos # None
    THEN LET roi_x == Max(0, t.last_pos[1] - cfg.search_margin)
             roi_y == Max(0, t.last_pos[2] - cfg.search_margin)
             roi_w == cfg.search_margin * 2 + t.w
             roi_h == cfg.search_margin * 2 + t.h
         IN IF roi_w >= t.w /\ roi_h >= t.h
            THEN UNION { IF m.score >= cfg.confidence
                         THEN {Result(t, TRUE, roi_x + m.x, roi_y + m.y, m.score, "Heuristic",
                                      Logged(<<>>, "roi", frame, <<roi_x, roi_y, roi_w, roi_h>>, m.score))}
                         ELSE PyramidTier(t, cfg, frame, frame_small,
                                          Logged(<<>>, "roi", frame, <<roi_x, roi_y, roi_w, roi_h>>, m.score))
                         : m \in BestMatches(roi_w, roi_h, t.w, t.h, cfg.method) }
            ELSE PyramidTier(t, cfg, frame, frame_small, <<>>)
    ELSE PyramidTier(t, cfg, frame, frame_small, <<>>)

\* Mutant of RoiTier: a ROI hit is noted but the search goes on to the
\* pyramid tier, whose outcome is returned.
RoiTierNoReturn(t, cfg, frame, frame_small) ==
    IF t.last_pos # None
    THEN LET roi_x == Max(0, t.last_pos[1] - cfg.search_margin)
             roi_y == Max(0, t.last_pos[2] - cfg.search_margin)
             roi_w == Min(cfg.search_margin * 2 + t.w, cfg.screen_w - roi_x)
             roi_h == Min(cfg.search_margin * 2 + t.h, cfg.screen_h - roi_y)
         IN IF roi_w >= t.w /\ roi_h >= t.h
            THEN UNION { PyramidTier(t, cfg, frame, frame_small,
                                     Logged(<<>>, "roi", frame, <<roi_x, roi_y, roi_w, roi_h>>, m.score))
                         : m \in BestMatches(roi_w, roi_h, t.w, t.h, cfg.method) }
            ELSE PyramidTier(t, cfg, frame, frame_small, <<>>)
    ELSE PyramidTier(t, cfg, frame, frame_small, <<>>)

\* Heuristic ROI first (simple_match.py:174-192), then the other tiers.
RoiTier(t, cfg, frame, frame_small) ==
    IF t.last_pos # None
    THEN LET roi_x == Max(0, t.last_pos[1] - cfg.search_margin)
             roi_y == Max(0, t.last_pos[2] - cfg.search_margin)
             roi_w == Min(cfg.search_margin * 2 + t.w, cfg.screen_w - roi_x)
             roi_h == Min(cfg.search_margin * 2 + t.h, cfg.screen_h - roi_y)
         IN IF roi_w >= t.w /\ roi_h >= t.h
            THEN UNION { IF m.score >= cfg.confidence
                         THEN {Result(t, TRUE, roi_x + m.x, roi_y + m.y, m.score, "Heuristic",
                                      Logged(<<>>, "roi", frame, <<roi_x, roi_y, roi_w, roi_h>>, m.score))}
                         ELSE PyramidTier(t, cfg, frame, frame_small,
                                          Logged(<<>>, "roi", frame, <<roi_x, roi_y, roi_w, roi_h>>, m.score))
                         : m \in BestMatches(roi_w, roi_h, t.w, t.h, cfg.method) }
            ELSE PyramidTier(t, cfg, frame, frame_small, <<>>)
    ELSE PyramidTier(t, cfg, frame, frame_small, <<>>)

\* _match_one (simple_match.py:159-245): the results it can return for
\* template state t on the images handed to it.
match_one(t, cfg, frame_bgr, frame_gray, frame_small) ==
    LET frame == IF cfg.use_grayscale THEN frame_gray ELSE frame_bgr
    IN RoiTier(t, cfg, frame, frame_small)

\* No result yet.
NoResult == [id |-> -1, found |-> FALSE, x |-> 0, y |-> 0, w |-> 0, h |-> 0,
             score |-> 0, method |-> "none", log |-> <<>>]

\* tracker.cfg, tracker.templates: as built by __init__
\* tracker.pc        "idle": no find_all() in progress; "matching": the frame
\*                   is captured and the _match_one calls are under way
\* tracker.seq       number of the last grab, modulo FrameIds
\* tracker.grabs, tracker.resizes   grabs and downscales made by the current
\*                   (or last) find_all()
\* tracker.frame_bgr, frame_gray, frame_small   find_all()'s locals
\* tracker.last_frame   self._last_frame
\* tracker.tasks[t]  the _match_one call for template t: "none" before the
\*                   first cycle, "queued" with its arguments, "done" with its
\*                   result; prev is the outcome (found, x, y) of the result
\*                   that find_all last returned for it
Outcome(r) == [found |-> r.found, x |-> r.x, y |-> r.y]

TrackerNew(args) ==
    [cfg |-> TrackerConfig(args),
     templates |-> [t \in Templates |-> TemplateInit(t, args.downscale_factor)],
     pc |-> "idle", seq |-> 0, grabs |-> 0, resizes |-> 0,
     frame_bgr |-> NoImage, frame_gray |-> NoImage, frame_small |-> NoImage,
     last_frame |-> NoImage,
     tasks |-> [t \in Templates |-> [st |-> "none", frame_bgr |-> NoImage,
                                     frame_gray |-> NoImage, frame_small |-> NoImage,
                                     result |-> NoResult, prev |-> Outcome(NoResult)]]]

\* _grab_frame_bgr (simple_match.py:131-136): a new frame.
grab_frame_bgr(tr) ==
    [tr EXCEPT !.seq = (tr.seq + 1) % FrameIds, !.grabs = tr.grabs + 1,
               !.frame_bgr = Image((tr.seq + 1) % FrameIds, "bgr")]

\* find_all lines 249-262: cache the frame, grayscale copy, downscaled copy.
Derive(tr) ==
    LET gray == IF tr.cfg.use_grayscale THEN Image(tr.frame_bgr.src, "gray") ELSE NoImage
        small == IF tr.cfg.use_pyramid
                 THEN Image(tr.frame_bgr.src, IF tr.cfg.use_grayscale THEN "small gray"
                                                                      ELSE "small bgr")
                 ELSE NoImage
    IN [tr EXCEPT !.last_frame = tr.frame_bgr, !.frame_gray = gray, !.frame_small = small,
                  !.resizes = tr.resizes + (IF tr.cfg.use_pyramid THEN 1 ELSE 0)]

\* Mutant of FrameFor: every template's matcher gets a frame grabbed for it.
FrameForOwnGrab(t, tr) == Image((tr.frame_bgr.src + t) % FrameIds, "bgr")

\* The frame handed to the _match_one call of template t (simple_match.py:265, 269).
FrameFor(t, tr) == tr.frame_bgr

\* find_all up to the submission of the _match_one calls (simple_match.py:248-269).
Capture ==
    /\ UNCHANGED <<actions, device, hist, runner, store, service, pacing, scene, race>>
    /\ tracker.pc = "idle"
    /\ LET tr == Derive(grab_frame_bgr([tracker EXCEPT !.grabs = 0, !.resizes = 0]))
       IN tracker' = [tr EXCEPT !.pc = "matching",
                                !.tasks = [t \in Templates |->
                                    [st |-> "queued", frame_bgr |-> FrameFor(t, tr),
                                     frame_gray |-> tr.frame_gray,
                                     frame_small |-> tr.frame_small,
                                     result |-> NoResult,
                                     prev |-> tracker.tasks[t].prev]]]

\* Without an executor the calls run in list order; the pool runs them in any order.
MayRun(t) ==
    /\ tracker.tasks[t].st = "queued"
    /\ tracker.cfg.executor \/ \A u \in Templates : u < t => tracker.tasks[u].st = "done"

\* One _match_one call.
MatchOne(t) ==
    /\ UNCHANGED <<actions, device, hist, runner, store, service, pacing, scene, race>>
    /\ tracker.pc = "matching"
    /\ MayRun(t)
    /\ LET k == tracker.tasks[t]
       IN \E r \in match_one(tracker.templates[t], tracker.cfg,
                             k.frame_bgr, k.frame_gray, k.frame_small) :
             tracker' = [tracker EXCEPT !.tasks[t] = [k EXCEPT !.st = "done", !.result = r]]

\* Mutant of UpdateState: a lost template keeps its last position.
UpdateStateKeep(t, r) ==
    IF r.found THEN [t EXCEPT !.last_pos = <<r.x, r.y>>, !.found = TRUE]
    ELSE [t EXCEPT !.found = FALSE]

\* Update per-template state (simple_match.py:272-279).
UpdateState(t, r) ==
    IF r.found THEN [t EXCEPT !.last_pos = <<r.x, r.y>>, !.found = TRUE]
    ELSE [t EXCEPT !.last_pos = None, !.found = FALSE]

\* find_all from the collection of the results to its return (simple_match.py:267-281).
Collect ==
    /\ UNCHANGED <<actions, device, hist, runner, store, service, pacing, scene, race>>
    /\ tracker.pc = "matching"
    /\ \A t \in Templates : tracker.tasks[t].st = "done"
    /\ tracker' = [tracker EXCEPT
          !.pc = "idle",
          !.templates = [t \in Templates |->
                            UpdateState(tracker.templates[t], tracker.tasks[t].result)],
          !.tasks = [t \in Templates |->
                        [tracker.tasks[t] EXCEPT !.prev = Outcome(tracker.tasks[t].result)]]]

(***************************************************************************)
(*                 GameState: the shared table of entities                 *)
(***************************************************************************)

\* The entity names the tracker publishes and the calls it makes: the
\* keyword arguments of update_entity as tracker_service.py:83-91 passes them.
Names == {"slime", "bat"}
Updates ==
    { [x |-> 800, y |-> 400, found |-> TRUE, method |-> "Full Scan"],
      [x |-> 820, y |-> 400, found |-> TRUE, method |-> "Heuristic"],
      [x |-> 0, y |-> 0, found |-> FALSE, method |-> "Not Found"] }

\* The writer stops after MaxUpdates calls of update_entity.
MaxUpdates == 3

\* A dict with no key.
EmptyDict == [k \in {} |-> 0]

\* d[k] = v on a dict (insertion keeps the other keys).
DictSet(d, k, v) == [j \in DOMAIN d \cup {k} |-> IF j = k THEN v ELSE d[j]]

\* del d[k]
DictDel(d, k) == [j \in DOMAIN d \ {k} |-> d[j]]

\* The reference None.
NoRef == 0

\* GameState.__init__ (game_state.py:15-19) and the two threads.  The inner
\* dicts are objects: store.heap maps each object's reference (the number of
\* the update_entity call that made it) to its content, and the store and the
\* dicts handed to readers hold references.
\* store.lock      owner of self._lock: "none", "writer" or "reader"
\* store.entities  self._entities, name -> reference; store.order is its
\*                 insertion order
\* store.writer    the thread inside update_entity: its position, the tracking
\*                 thread it is (0: a writer of its own), the arguments of
\*                 the call, the dict it is building, the number of calls
\*                 finished
\* store.reader    the thread calling the read methods in a loop: its
\*                 position, the call, the iterator over items() (size at
\*                 creation, index), the dict under construction, whether the
\*                 call raised, the last dict returned (name -> reference),
\*                 the last reference get_entity returned, seen: the
\*                 content of the last dict returned as the reader has seen
\*                 or made it, and the number of writes it made into what it
\*                 was given
\* store.written   every (name, fields) an update_entity call was given
StoreInit ==
    [lock |-> "none",
     heap |-> EmptyDict,
     entities |-> EmptyDict,
     order |-> <<>>,
     writer |-> [pc |-> "idle", th |-> 0, name |-> "", args |-> CHOOSE u \in Updates : ~u.found,
                 temp |-> EmptyDict, n |-> 0],
     reader |-> [pc |-> "idle", call |-> "none", size |-> 0, i |-> 0, acc |-> EmptyDict,
                 raised |-> FALSE, result |-> EmptyDict, entity |-> NoRef,
                 seen |-> EmptyDict, scribbles |-> 0],
     written |-> {}]

\* The content of the objects a dict of references points to.
Deref(heap, d) == [k \in DOMAIN d |-> heap[d[k]]]

\* The references a dict holds.
Refs(d) == {d[k] : k \in DOMAIN d}

\* An inner dict that nothing refers to any more is freed: the heap keeps the
\* objects the table, the reader's dicts and the reader's entity refer to.
Sweep(s) ==
    LET live == Refs(s.entities) \cup Refs(s.reader.result) \cup Refs(s.reader.acc)
                   \cup {s.reader.entity}
    IN [s EXCEPT !.heap = [ref \in DOMAIN s.heap \cap live |-> s.heap[ref]]]

\* Mutant of CanAcquire: the lock excludes nobody.
CanAcquireAlways(lock, th) == TRUE

\* threading.RLock (game_state.py:16): free, or held by the caller itself.
CanAcquire(lock, th) == lock \in {"none", th}

\* update_entity, "with self._lock" entered (game_state.py:21-23).
UpdateAcquire ==
    /\ UNCHANGED <<actions, device, hist, runner, tracker, service, pacing, scene, race>>
    /\ store.writer.pc = "idle"
    /\ store.writer.n < MaxUpdates
    /\ CanAcquire(store.lock, "writer")
    /\ \E name \in Names, u \in Updates :
          store' = [store EXCEPT !.lock = "writer",
                                 !.writer.pc = "build",
                                 !.writer.name = name,
                                 !.writer.args = u,
                                 !.written = store.written \cup {<<name, u>>}]

\* The dict display of game_state.py:24-27: the keys x, y, found.
UpdateBuild ==
    /\ UNCHANGED <<actions, device, hist, runner, tracker, service, pacing, scene, race>>
    /\ store.writer.pc = "build"
    /\ LET a == store.writer.args
       IN store' = [store EXCEPT !.writer.temp = [x |-> a.x, y |-> a.y, found |-> a.found],
                                 !.writer.pc = "merge"]

\* **extra merged into the new dict (game_state.py:28).
UpdateMerge ==
    /\ UNCHANGED <<actions, device, hist, runner, tracker, service, pacing, scene, race>>
    /\ store.writer.pc = "merge"
    /\ LET d == store.writer.temp
       IN store' = [store EXCEPT !.writer.temp = [x |-> d.x, y |-> d.y, found |-> d.found,
                                                  method |-> store.writer.args.method],
                                 !.writer.pc = "store"]

\* self._entities[name] = the new dict (game_state.py:24): the new object d,
\* of reference ref, takes the place of the old one, which is left as it is.
UpdateEntry(s, name, ref, d) ==
    [s EXCEPT !.heap = DictSet(s.heap, ref, d),
              !.entities = DictSet(s.entities, name, ref),
              !.order = IF name \in DOMAIN s.entities THEN s.order
                        ELSE Append(s.order, name)]

\* self._entities[name] = the new dict (game_state.py:24).
UpdateStore ==
    /\ UNCHANGED <<actions, device, hist, runner, tracker, service, pacing, scene, race>>
    /\ store.writer.pc = "store"
    /\ LET s == UpdateEntry(store, store.writer.name, store.writer.n + 1, store.writer.temp)
       IN store' = Sweep([s EXCEPT !.writer.temp = EmptyDict, !.writer.pc = "release"])

\* update_entity leaves the with block and returns (game_state.py:23).
UpdateRelease ==
    /\ UNCHANGED <<actions, device, hist, runner, tracker, service, pacing, scene, race>>
    /\ store.writer.pc = "release"
    /\ store' = [store EXCEPT !.lock = "none", !.writer.pc = "idle",
                              !.writer.n = store.writer.n + 1]

\* get_all_entities or get_found_entities, "with self._lock" entered
\* (game_state.py:36-38, 41-43).
ReadAcquire ==
    /\ UNCHANGED <<actions, device, hist, runner, tracker, service, pacing, scene, race>>
    /\ store.reader.pc = "idle"
    /\ CanAcquire(store.lock, "reader")
    /\ \E call \in {"get_all_entities", "get_found_entities"} :
          store' = [store EXCEPT !.lock = "reader",
                                 !.reader.call = call,
                                 !.reader.raised = FALSE,
                                 !.reader.pc = IF call = "get_all_entities" THEN "copy"
                                               ELSE "iter"]

\* dict(self._entities) (game_state.py:39): a new outer dict holding the same
\* references.
GetAllCopy ==
    /\ UNCHANGED <<actions, device, hist, runner, tracker, service, pacing, scene, race>>
    /\ store.reader.pc = "copy"
    /\ store' = Sweep([store EXCEPT !.reader.result = store.entities,
                                    !.reader.seen = Deref(store.heap, store.entities),
                                    !.reader.pc = "release"])

\* The comprehension of game_state.py:44 starts: the iterator over
\* self._entities.items() notes the size of the dict.
GetFoundIter ==
    /\ UNCHANGED <<actions, device, hist, runner, tracker, service, pacing, scene, race>>
    /\ store.reader.pc = "iter"
    /\ store' = [store EXCEPT !.reader.size = Len(store.order), !.reader.i = 1,
                              !.reader.acc = EmptyDict, !.reader.pc = "next"]

\* One step of the comprehension (game_state.py:44): the iterator raises
\* RuntimeError when the dict changed size, ends after the last item, or
\* yields the next item, which is kept when its "found" is true.
GetFoundNext ==
    /\ UNCHANGED <<actions, device, hist, runner, tracker, service, pacing, scene, race>>
    /\ store.reader.pc = "next"
    /\ LET r == store.reader
       IN IF Len(store.order) # r.size
          THEN store' = Sweep([store EXCEPT !.reader.raised = TRUE, !.reader.acc = EmptyDict,
                                            !.reader.pc = "release"])
          ELSE IF r.i > r.size
          THEN store' = Sweep([store EXCEPT !.reader.result = r.acc,
                                            !.reader.seen = Deref(store.heap, r.acc),
                                            !.reader.acc = EmptyDict,
                                            !.reader.pc = "release"])
          ELSE LET k == store.order[r.i]
                   v == store.entities[k]
               IN store' = [store EXCEPT
                     !.reader.acc = IF store.heap[v].found THEN DictSet(r.acc, k, v)
                                    ELSE r.acc,
                     !.reader.i = r.i + 1]

\* The reader leaves the with block: the call returns or the error goes on
\* to the caller (game_state.py:38, 43).
ReadRelease ==
    /\ UNCHANGED <<actions, device, hist, runner, tracker, service, pacing, scene, race>>
    /\ store.reader.pc = "release"
    /\ store' = [store EXCEPT !.lock = "none", !.reader.pc = "idle"]

\* get_entity(name), "with self._lock" entered (game_state.py:31-33).
GetEntityAcquire ==
    /\ UNCHANGED <<actions, device, hist, runner, tracker, service, pacing, scene, race>>
    /\ store.reader.pc = "idle"
    /\ CanAcquire(store.lock, "reader")
    /\ \E name \in Names :
          store' = [store EXCEPT !.lock = "reader", !.reader.call = name,
                                 !.reader.raised = FALSE, !.reader.pc = "get"]

\* return self._entities.get(name, None) (game_state.py:34): the reference
\* the table holds.
GetEntityGet ==
    /\ UNCHANGED <<actions, device, hist, runner, tracker, service, pacing, scene, race>>
    /\ store.reader.pc = "get"
    /\ store' = Sweep([store EXCEPT
          !.reader.entity = IF store.reader.call \in DOMAIN store.entities
                            THEN store.entities[store.reader.call] ELSE NoRef,
          !.reader.pc = "release"])

\* What a caller writes into an observation it was given.
Scribble == -1

\* The caller stops writing into what it was given after MaxScribbles writes.
MaxScribbles == 1

\* The caller changes a field of an inner dict it got from a read: the one
\* get_entity returned, or one inside the last dict returned.
MutateObservation ==
    /\ UNCHANGED <<actions, device, hist, runner, tracker, service, pacing, scene, race>>
    /\ store.reader.pc = "idle"
    /\ store.reader.scribbles < MaxScribbles
    /\ \E ref \in ({store.reader.entity} \ {NoRef})
                     \cup {store.reader.result[k] : k \in DOMAIN store.reader.result} :
          /\ store.heap[ref].x # Scribble
          /\ store' = [store EXCEPT
                !.heap[ref].x = Scribble,
                !.reader.scribbles = store.reader.scribbles + 1,
                !.reader.seen = [k \in DOMAIN store.reader.seen |->
                                    IF store.reader.result[k] = ref
                                    THEN [store.reader.seen[k] EXCEPT !.x = Scribble]
                                    ELSE store.reader.seen[k]]]

\* The caller deletes a key of the last dict returned to it.
MutateSnapshot ==
    /\ UNCHANGED <<actions, device, hist, runner, tracker, service, pacing, scene, race>>
    /\ store.reader.pc = "idle"
    /\ store.reader.scribbles < MaxScribbles
    /\ \E k \in DOMAIN store.reader.result :
          store' = Sweep([store EXCEPT !.reader.scribbles = store.reader.scribbles + 1,
                                       !.reader.result = DictDel(store.reader.result, k),
                                       !.reader.seen = DictDel(store.reader.seen, k)])

(***************************************************************************)
(*          TrackerService: start, stop and the tracking thread            *)
(***************************************************************************)

\* The templates of the service, in list order (tracker_service.py:39-49).
ServiceNames == <<"slime", "bat">>

\* The caller creates at most MaxStarts tracking threads, and the tracking
\* loop runs at most MaxCycles cycles in all.
MaxStarts == 2
MaxCycles == 2

\* fps of TrackerService.__init__ (tracker_service.py:23) and its frame time
\* in microseconds (tracker_service.py:71).
ServiceFps == 60
ServiceFrameTime == 1000000 \div ServiceFps

\* time.time() - loop_start of a cycle (tracker_service.py:96), in
\* microseconds: no time, or more than a frame.
ServiceElapsed == {0, ServiceFrameTime + 5000}

\* A tracking thread (tracker_service.py:55-101): its position, the results of
\* its last find_all(), the index of the result it publishes next, the
\* argument of its last time.sleep.
ThreadNew == [pc |-> "construct", results |-> <<>>, idx |-> 0, slept |-> NoSleep]

\* The caller of start() and stop(): its position, the method, the joins and
\* the timeout of the current stop(), what the method printed, whether it
\* raised; created_before and was_running are the number of threads and
\* self.running when the method began.
CallerInit ==
    [pc |-> "idle", op |-> "none", joins |-> 0, timed_out |-> FALSE, out |-> <<>>,
     raised |-> FALSE, created_before |-> 0, was_running |-> FALSE]

\* The threads of the program: the one that calls start() and stop(), and the
\* tracking threads by their number.
CallerThread == <<"caller", 0>>
TrackingThread(th) == <<"tracking", th>>

\* Thread who reads or writes the attribute attr of the service.
Touch(sv, attr, who) == [sv EXCEPT !.users[attr] = @ \cup {who}]

\* TrackerService.__init__ (tracker_service.py:22-53).  assets_ok: whether
\* cv.imread can load every template of the table.  entered: main() has gone
\* on from tracker.start() to the run loop (script_runner.py:193-200).
\* users: the threads that have read or written self.running and
\* self.frame_count since the construction.
ServiceNew(assets_ok) ==
    [running |-> FALSE, thread |-> 0, frame_count |-> 0, assets_ok |-> assets_ok,
     threads |-> <<>>, caller |-> CallerInit, entered |-> FALSE,
     users |-> [running |-> {}, frame_count |-> {}]]

ServiceInit == ServiceNew(TRUE)

\* start() (tracker_service.py:103-112).
StartWhen(sv) ==
    IF sv.running
    THEN [Touch(sv, "running", CallerThread) EXCEPT !.caller = [CallerInit EXCEPT !.op = "start",
                                                  !.out = <<"Already running">>,
                                                  !.created_before = Len(sv.threads),
                                                  !.was_running = sv.running]]
    ELSE [Touch(sv, "running", CallerThread) EXCEPT
                    !.running = TRUE,
                    !.thread = Len(sv.threads) + 1,
                    !.threads = Append(sv.threads, ThreadNew),
                    !.caller = [CallerInit EXCEPT !.op = "start", !.out = <<"Started">>,
                                                  !.created_before = Len(sv.threads),
                                                  !.was_running = sv.running]]

Start ==
    /\ UNCHANGED <<actions, device, hist, runner, tracker, store, pacing, scene, race>>
    /\ service.caller.pc = "idle"
    /\ Len(service.threads) < MaxStarts
    /\ service' = StartWhen(service)

\* main() goes on to run_script_loop after tracker.start() returned
\* (script_runner.py:193-200).
EnterRunLoop ==
    /\ UNCHANGED <<actions, device, hist, runner, tracker, store, pacing, scene, race>>
    /\ service.caller.pc = "idle"
    /\ service.caller.op = "start"
    /\ ~service.caller.raised
    /\ ~service.entered
    /\ service' = [service EXCEPT !.entered = TRUE]

\* stop() begins: self.running = False; if self.thread: ... (tracker_service.py:114-117).
StopBegin ==
    /\ UNCHANGED <<actions, device, hist, runner, tracker, store, pacing, scene, race>>
    /\ service.caller.pc = "idle"
    /\ service' = [Touch(service, "running", CallerThread) EXCEPT
          !.running = FALSE,
          !.caller = [CallerInit EXCEPT !.op = "stop",
                                        !.pc = IF service.thread # 0 THEN "join" ELSE "print",
                                        !.created_before = Len(service.threads),
                                        !.was_running = service.running]]

\* self.thread.join(timeout=2.0) returns because the thread has ended
\* (tracker_service.py:118).
StopJoined ==
    /\ UNCHANGED <<actions, device, hist, runner, tracker, store, pacing, scene, race>>
    /\ service.caller.pc = "join"
    /\ service.threads[service.thread].pc \in {"exited", "failed"}
    /\ service' = [service EXCEPT !.caller.joins = service.caller.joins + 1,
                                  !.caller.pc = "print"]

\* self.thread.join(timeout=2.0) returns because the two seconds are over
\* (tracker_service.py:118).
StopTimeout ==
    /\ UNCHANGED <<actions, device, hist, runner, tracker, store, pacing, scene, race>>
    /\ service.caller.pc = "join"
    /\ service.threads[service.thread].pc \notin {"exited", "failed"}
    /\ service' = [service EXCEPT !.caller.joins = service.caller.joins + 1,
                                  !.caller.timed_out = TRUE,
                                  !.caller.pc = "print"]

\* print("[TrackerService] Stopped") and return (tracker_service.py:119).
StopPrint ==
    /\ UNCHANGED <<actions, device, hist, runner, tracker, store, pacing, scene, race>>
    /\ service.caller.pc = "print"
    /\ service' = [service EXCEPT !.caller.out = Append(service.caller.out, "Stopped"),
                                  !.caller.pc = "idle"]

\* MultiTemplateTrackerCV(paths, ...) inside the tracking thread
\* (tracker_service.py:61-69): it raises FileNotFoundError when cv.imread
\* returns None (simple_match.py:90-93), which ends the thread.
ConstructTracker(assets_ok) == IF assets_ok THEN "top" ELSE "failed"

ThreadConstruct(th) ==
    /\ UNCHANGED <<actions, device, hist, runner, tracker, store, pacing, scene, race>>
    /\ th \in DOMAIN service.threads
    /\ service.threads[th].pc = "construct"
    /\ service' = [service EXCEPT !.threads[th].pc = ConstructTracker(service.assets_ok)]

\* while self.running: (tracker_service.py:74)
ThreadTop(th) ==
    /\ UNCHANGED <<actions, device, hist, runner, tracker, store, pacing, scene, race>>
    /\ th \in DOMAIN service.threads
    /\ service.threads[th].pc = "top"
    /\ IF service.running
       THEN /\ service.frame_count < MaxCycles
            /\ service' = [Touch(service, "running", TrackingThread(th)) EXCEPT
                              !.threads[th].pc = "find",
                              !.threads[th].slept = NoSleep]
       ELSE service' = [Touch(service, "running", TrackingThread(th)) EXCEPT
                           !.threads[th].pc = "shutdown"]

\* What find_all() returns, as the fields that are published, one per
\* template: the slime found by a full scan and the bat not found; both
\* found by the ROI tier.
FindAllResults ==
    { << [x |-> 800, y |-> 400, found |-> TRUE, method |-> "Full Scan"],
         [x |-> 0, y |-> 0, found |-> FALSE, method |-> "Not Found"] >>,
      << [x |-> 820, y |-> 400, found |-> TRUE, method |-> "Heuristic"],
         [x |-> 820, y |-> 400, found |-> TRUE, method |-> "Heuristic"] >> }

\* results = tracker.find_all() (tracker_service.py:78).
ThreadFindAll(th) ==
    /\ UNCHANGED <<actions, device, hist, runner, tracker, store, pacing, scene, race>>
    /\ th \in DOMAIN service.threads
    /\ service.threads[th].pc = "find"
    /\ \E results \in FindAllResults :
          service' = [service EXCEPT !.threads[th].pc = "publish",
                                     !.threads[th].results = results,
                                     !.threads[th].idx = 1]

\* game_state.update_entity(name=..., ...) is called for the next result
\* (tracker_service.py:81-91) and enters "with self._lock".
PublishAcquire(th) ==
    /\ UNCHANGED <<actions, device, hist, runner, tracker, pacing, scene, race>>
    /\ th \in DOMAIN service.threads
    /\ service.threads[th].pc = "publish"
    /\ service.threads[th].idx <= Len(ServiceNames)
    /\ store.writer.pc = "idle"
    /\ CanAcquire(store.lock, "writer")
    /\ LET i == service.threads[th].idx
           u == service.threads[th].results[i]
       IN store' = [store EXCEPT !.lock = "writer",
                                 !.writer.pc = "build",
                                 !.writer.th = th,
                                 !.writer.name = ServiceNames[i],
                                 !.writer.args = u,
                                 !.written = store.written \cup {<<ServiceNames[i], u>>}]
    /\ service' = [service EXCEPT !.threads[th].pc = "update"]

\* The update_entity call has returned: on to the next result.
PublishReturn(th) ==
    /\ UNCHANGED <<actions, device, hist, runner, tracker, store, pacing, scene, race>>
    /\ th \in DOMAIN service.threads
    /\ service.threads[th].pc = "update"
    /\ ~(store.writer.pc # "idle" /\ store.writer.th = th)
    /\ service' = [service EXCEPT !.threads[th].pc = "publish",
                                  !.threads[th].idx = service.threads[th].idx + 1]

\* self.frame_count += 1 after the last result (tracker_service.py:93).
ThreadCount(th) ==
    /\ UNCHANGED <<actions, device, hist, runner, tracker, store, pacing, scene, race>>
    /\ th \in DOMAIN service.threads
    /\ service.threads[th].pc = "publish"
    /\ service.threads[th].idx > Len(ServiceNames)
    /\ service' = [Touch(service, "frame_count", TrackingThread(th)) EXCEPT
                                  !.frame_count = service.frame_count + 1,
                                  !.threads[th].results = <<>>,
                                  !.threads[th].idx = 0,
                                  !.threads[th].pc = "pace"]

\* Maintain target FPS (tracker_service.py:95-99).
ThreadPace(th) ==
    /\ UNCHANGED <<actions, device, hist, runner, tracker, store, pacing, scene, race>>
    /\ th \in DOMAIN service.threads
    /\ service.threads[th].pc = "pace"
    /\ \E elapsed \in ServiceElapsed :
          service' = [service EXCEPT
             !.threads[th].slept = PacingSleep(ServiceFrameTime, elapsed),
             !.threads[th].pc = "top"]

\* finally: tracker.shutdown() (tracker_service.py:100-101); the thread ends.
ThreadShutdown(th) ==
    /\ UNCHANGED <<actions, device, hist, runner, tracker, store, pacing, scene, race>>
    /\ th \in DOMAIN service.threads
    /\ service.threads[th].pc = "shutdown"
    /\ service' = [service EXCEPT !.threads[th].pc = "exited"]

(***************************************************************************)
(*                     The pacing rule of the three loops                  *)
(***************************************************************************)

\* The keyword arguments of update_entity for one MatchResult
\* (tracker_service.py:83-91).
PublishArgs(r) == [x |-> r.x, y |-> r.y, found |-> r.found, method |-> r.method]

\* Mutant of CycleResults: the results come in the reverse order.
CycleResultsReversed(tr) ==
    [i \in 1..Cardinality(Templates) |->
        PublishArgs(tr.tasks[Cardinality(Templates) - i].result)]

\* results = [f.result() for f in futures] / the list comprehension over
\* self.templates (simple_match.py:264-269): the results in the order of the
\* templates, as the tracking loop publishes them.
CycleResults(tr) ==
    [i \in 1..Cardinality(Templates) |-> PublishArgs(tr.tasks[i - 1].result)]

\* results = tracker.find_all() is called (tracker_service.py:78): find_all up
\* to the submission of the _match_one calls.
CycleCapture(th) ==
    /\ UNCHANGED <<actions, device, hist, runner, store, pacing, scene, race>>
    /\ th \in DOMAIN service.threads
    /\ service.threads[th].pc = "find"
    /\ tracker.pc = "idle"
    /\ LET tr == Derive(grab_frame_bgr([tracker EXCEPT !.grabs = 0, !.resizes = 0]))
       IN tracker' = [tr EXCEPT !.pc = "matching",
                                !.tasks = [t \in Templates |->
                                    [st |-> "queued", frame_bgr |-> FrameFor(t, tr),
                                     frame_gray |-> tr.frame_gray,
                                     frame_small |-> tr.frame_small,
                                     result |-> NoResult,
                                     prev |-> tracker.tasks[t].prev]]]
    /\ service' = [service EXCEPT !.threads[th].pc = "finding"]

\* find_all collects the results, updates the per-template state and returns
\* (simple_match.py:267-281); the tracking loop has its results.
CycleCollect(th) ==
    /\ UNCHANGED <<actions, device, hist, runner, store, pacing, scene, race>>
    /\ th \in DOMAIN service.threads
    /\ service.threads[th].pc = "finding"
    /\ tracker.pc = "matching"
    /\ \A t \in Templates : tracker.tasks[t].st = "done"
    /\ tracker' = [tracker EXCEPT
          !.pc = "idle",
          !.templates = [t \in Templates |->
                            UpdateState(tracker.templates[t], tracker.tasks[t].result)],
          !.tasks = [t \in Templates |->
                        [tracker.tasks[t] EXCEPT !.prev = Outcome(tracker.tasks[t].result)]]]
    /\ service' = [service EXCEPT !.threads[th].pc = "publish",
                                  !.threads[th].results = CycleResults(tracker),
                                  !.threads[th].idx = 1]

\* The default fps of run_script_timed, and of run_script_loop and
\* TrackerService.
PacingFps == {TimedFps, LoopFps}

\* Elapsed times are tried in steps of PaceStep microseconds, from 0 to
\* PaceSteps steps, and right at the budget.
PaceStep == 1000
PaceSteps == 40
ElapsedTimes(frame_time) ==
    {k * PaceStep : k \in 0..PaceSteps} \cup {frame_time - 1, frame_time, frame_time + 1}

\* pacing.pc: "work" (loop_start taken), "measured" (elapsed known), "slept"
PacingInit == [pc |-> "work", frame_time |-> 0, elapsed |-> 0, slept |-> NoSleep]

\* elapsed = time.time() - loop_start, for a loop of some fps.
PacingMeasure ==
    /\ UNCHANGED <<actions, device, hist, runner, tracker, store, service, scene, race>>
    /\ pacing.pc = "work"
    /\ \E fps \in PacingFps : \E elapsed \in ElapsedTimes(1000000 \div fps) :
          pacing' = [pc |-> "measured", frame_time |-> 1000000 \div fps,
                     elapsed |-> elapsed, slept |-> NoSleep]

\* sleep_time = frame_time - elapsed; if sleep_time > 0: time.sleep(sleep_time)
PacingPace ==
    /\ UNCHANGED <<actions, device, hist, runner, tracker, store, service, scene, race>>
    /\ pacing.pc = "measured"
    /\ pacing' = [pacing EXCEPT !.pc = "slept",
                                !.slept = PacingSleep(pacing.frame_time, pacing.elapsed)]

\* The next iteration of the loop begins.
PacingNext ==
    /\ UNCHANGED <<actions, device, hist, runner, tracker, store, service, scene, race>>
    /\ pacing.pc = "slept"
    /\ pacing' = PacingInit

(***************************************************************************)
(*          One target followed over cycles on a full-size screen          *)
(***************************************************************************)

\* The monitor (simple_match.py:82-83) and the size of the target's template
\* (simple_match.py:94).
MonitorW == 1920
MonitorH == 1080
SlimeW == 64
SlimeH == 64

\* The keyword defaults of TrackerService.__init__ (tracker_service.py:22-24),
\* in hundredths where they are fractions.
ServiceConfidence == 85
ServiceMargin == 150
ServiceDownscale == 50

\* The tracker the tracking loop builds from the service's defaults for one
\* template (tracker_service.py:61-69), on that monitor.
SceneConfig ==
    [TrackerConfig([confidence |-> ServiceConfidence, search_margin |-> ServiceMargin,
                    max_workers |-> 1, use_grayscale |-> TRUE,
                    method |-> "TM_CCOEFF_NORMED",
                    downscale_factor |-> ServiceDownscale, skip_full_scan |-> TRUE])
        EXCEPT !.screen_w = MonitorW, !.screen_h = MonitorH,
               !.screen_w_small = Down(MonitorW, ServiceDownscale),
               !.screen_h_small = Down(MonitorH, ServiceDownscale)]

\* TemplateState as __init__ builds it (simple_match.py:90-110).
SceneTemplate ==
    [id |-> 0, w |-> SlimeW, h |-> SlimeH,
     w_small |-> Max(1, Down(SlimeW, ServiceDownscale)),
     h_small |-> Max(1, Down(SlimeH, ServiceDownscale)),
     last_pos |-> None, found |-> FALSE]

\* What a frame shows: whether the target is on it and where, the score of
\* matchTemplate at that place at full resolution (score) and on the
\* downscaled frame (coarse), and the best score of an image that does not
\* contain the whole target (elsewhere).
Sighting(x, y, score, coarse) ==
    [present |-> TRUE, x |-> x, y |-> y, score |-> score, coarse |-> coarse,
     elsewhere |-> 30]
Gone == [present |-> FALSE, x |-> 0, y |-> 0, score |-> 30, coarse |-> 30, elsewhere |-> 30]
Sightings ==
    { Gone,
      Sighting(800, 400, 92, 90), Sighting(820, 400, 92, 90),
      Sighting(820, 400, 92, 70), Sighting(1400, 900, 92, 90),
      Sighting(800, 400, 80, 78) }

\* The scenario runs at most SceneCycles cycles.
SceneCycles == 4

\* _best_match (simple_match.py:138-157) on the region (rx, ry, rw, rh) of
\* the full-resolution frame: the target's place in the region and its score
\* when the region holds the whole target, the best of the rest otherwise.
SceneBestMatch(s, rx, ry, rw, rh, w, h) ==
    IF s.present /\ rx <= s.x /\ s.x + w <= rx + rw /\ ry <= s.y /\ s.y + h <= ry + rh
    THEN [score |-> s.score, x |-> s.x - rx, y |-> s.y - ry]
    ELSE [score |-> s.elsewhere, x |-> 0, y |-> 0]

\* _best_match on the whole downscaled frame (simple_match.py:198).
SceneCoarseMatch(s, cfg) ==
    IF s.present
    THEN [score |-> s.coarse, x |-> Down(s.x, cfg.downscale_factor),
          y |-> Down(s.y, cfg.downscale_factor)]
    ELSE [score |-> s.elsewhere, x |-> 0, y |-> 0]

\* The ROI of the heuristic tier around last_pos (simple_match.py:174-178).
SceneRoi(t, cfg) ==
    LET roi_x == Max(0, t.last_pos[1] - cfg.search_margin)
        roi_y == Max(0, t.last_pos[2] - cfg.search_margin)
    IN <<roi_x, roi_y,
         Min(cfg.search_margin * 2 + t.w, cfg.screen_w - roi_x),
         Min(cfg.search_margin * 2 + t.h, cfg.screen_h - roi_y)>>

\* Full scan fallback (simple_match.py:227-237).
SceneFullTier(t, cfg, s, log) ==
    IF ~cfg.skip_full_scan /\ cfg.screen_w >= t.w /\ cfg.screen_h >= t.h
    THEN LET m == SceneBestMatch(s, 0, 0, cfg.screen_w, cfg.screen_h, t.w, t.h)
         IN IF m.score >= cfg.confidence
            THEN Result(t, TRUE, m.x, m.y, m.score, "Full Scan", Append(log, "full"))
            ELSE NotFound(t, Append(log, "full"))
    ELSE NotFound(t, log)

\* Pyramid matching: coarse search, then refinement at full resolution
\* (simple_match.py:194-224).
ScenePyramidTier(t, cfg, s, log) ==
    IF cfg.use_pyramid
       /\ cfg.screen_w_small >= t.w_small /\ cfg.screen_h_small >= t.h_small
    THEN LET c == SceneCoarseMatch(s, cfg)
             x_full == Up(c.x, cfg.downscale_factor)
             y_full == Up(c.y, cfg.downscale_factor)
             refine_margin == RefineMargin(cfg)
             roi_x == Max(0, x_full - refine_margin)
             roi_y == Max(0, y_full - refine_margin)
             roi_w == Min(t.w + refine_margin * 2, cfg.screen_w - roi_x)
             roi_h == Min(t.h + refine_margin * 2, cfg.screen_h - roi_y)
             m == SceneBestMatch(s, roi_x, roi_y, roi_w, roi_h, t.w, t.h)
         IN IF c.score * CoarseDen >= cfg.confidence * CoarseNum
            THEN IF roi_w >= t.w /\ roi_h >= t.h
                 THEN IF m.score >= cfg.confidence
                      THEN Result(t, TRUE, roi_x + m.x, roi_y + m.y, m.score, "Pyramid",
                                  log \o <<"coarse", "refine">>)
                      ELSE SceneFullTier(t, cfg, s, log \o <<"coarse", "refine">>)
                 ELSE SceneFullTier(t, cfg, s, Append(log, "coarse"))
            ELSE SceneFullTier(t, cfg, s, Append(log, "coarse"))
    ELSE SceneFullTier(t, cfg, s, log)

\* Mutant of SceneMatchOne: the heuristic tier is never tried.
SceneMatchOneNoRoi(t, cfg, s) == ScenePyramidTier(t, cfg, s, <<>>)

\* _match_one (simple_match.py:159-245) on a frame showing s: the heuristic
\* ROI first, then the pyramid, then the full scan.
SceneMatchOne(t, cfg, s) ==
    IF t.last_pos # None
    THEN LET roi == SceneRoi(t, cfg)
             m == SceneBestMatch(s, roi[1], roi[2], roi[3], roi[4], t.w, t.h)
         IN IF roi[3] >= t.w /\ roi[4] >= t.h
            THEN IF m.score >= cfg.confidence
                 THEN Result(t, TRUE, roi[1] + m.x, roi[2] + m.y, m.score, "Heuristic",
                             <<"roi">>)
                 ELSE ScenePyramidTier(t, cfg, s, <<"roi">>)
            ELSE ScenePyramidTier(t, cfg, s, <<>>)
    ELSE ScenePyramidTier(t, cfg, s, <<>>)

\* scene.pc        "find": before find_all(); "publish": before update_entity
\* scene.template  the TemplateState of the target
\* scene.sighting, scene.before, scene.result   the frame of the cycle in
\*                 progress, last_pos when it began, and its MatchResult
\* scene.log       one entry per finished cycle: the frame, last_pos before
\*                 and after, the tiers tried, the observation published
SceneInit ==
    [pc |-> "find", template |-> SceneTemplate, sighting |-> Gone, before |-> None,
     result |-> NoResult, log |-> <<>>]

\* results = tracker.find_all() (tracker_service.py:78) for the one template:
\* _match_one on the frame captured, then the update of the template's state
\* (simple_match.py:264-281).
SceneFindAll ==
    /\ UNCHANGED <<actions, device, hist, runner, tracker, store, service, pacing, race>>
    /\ scene.pc = "find"
    /\ Len(scene.log) < SceneCycles
    /\ \E s \in Sightings :
          LET r == SceneMatchOne(scene.template, SceneConfig, s)
          IN scene' = [scene EXCEPT !.pc = "publish",
                                    !.sighting = s,
                                    !.before = scene.template.last_pos,
                                    !.result = r,
                                    !.template = UpdateState(scene.template, r)]

\* game_state.update_entity(name="slime", ...) from call to return
\* (tracker_service.py:81-91, game_state.py:21-28).
ScenePublish ==
    /\ UNCHANGED <<actions, device, hist, runner, tracker, service, pacing, race>>
    /\ scene.pc = "publish"
    /\ LET u == PublishArgs(scene.result)
           d == [x |-> u.x, y |-> u.y, found |-> u.found, method |-> u.method]
           s == UpdateEntry(store, ServiceNames[1], store.writer.n + 1, d)
       IN /\ store' = Sweep([s EXCEPT !.writer.n = store.writer.n + 1,
                                      !.written = store.written \cup {<<ServiceNames[1], u>>}])
          /\ scene' = [scene EXCEPT
                !.pc = "find",
                !.log = Append(scene.log,
                               [sighting |-> scene.sighting, before |-> scene.before,
                                tiers |-> scene.result.log, obs |-> d,
                                after |-> scene.template.last_pos])]

(***************************************************************************)
(*     The Actions singleton between the runner thread and its cleanup     *)
(***************************************************************************)

\* The two threads that call into the Actions instance: the thread running
\* run_script_timed (combat_learner.py:304-310) and the thread running
\* learn_to_fight (combat_learner.py:259-261).
RaceThreads == {"runner", "controller"}

\* The keys a script's frame can hold down, and the frames the runner plays.
RaceKeys == {"a", "d"}
RaceFrames == 2

\* A set iterator: the set object it walks, the size of that object when the
\* iterator was made, the elements it has yielded.
NoIter == [obj |-> 0, used |-> 0, seen |-> {}]

\* race.objs        the set objects made so far, by identity; race.held_obj
\*                  is the one self._held_keys is bound to
\* race.desired, race.queued, race.want_attack, race.mouse_is_down
\*                  the other fields of the Actions instance
\* race.down, race.button   keys and mouse button physically down
\* race.stop_event  the Event handed to run_script_timed
\* race.frames      frames the runner has flushed
\* race.th[t]       position of thread t and its locals: key (flush),
\*                  keys_to_release, keys_to_press (flush), it (the iterator
\*                  of release_all's for loop)
RaceInit ==
    [objs |-> <<{}>>, held_obj |-> 1,
     desired |-> {}, queued |-> <<>>, want_attack |-> FALSE, mouse_is_down |-> FALSE,
     down |-> {}, button |-> FALSE,
     stop_event |-> FALSE, frames |-> 0,
     th |-> [t \in RaceThreads |->
               [pc |-> IF t = "runner" THEN "loop" ELSE "monitor",
                key |-> "", keys_to_release |-> {}, keys_to_press |-> {},
                it |-> NoIter]]]

\* self._held_keys: the content of the object the attribute is bound to.
HeldKeys(r) == r.objs[r.held_obj]

At_(r, t, pc) == [r EXCEPT !.th[t].pc = pc]

\* "while not stop_event.is_set()" (script_runner.py:127); the finally block
\* is entered when it is set (script_runner.py:153-155).
RaceLoopTop ==
    /\ UNCHANGED <<actions, device, hist, runner, tracker, store, service, pacing, scene>>
    /\ race.th["runner"].pc = "loop"
    /\ race.stop_event \/ race.frames < RaceFrames
    /\ race' = At_(race, "runner", IF race.stop_event THEN "r_iter" ELSE "policy")

\* script_module.run(game_state, actions) (script_runner.py:131-134): the
\* script declares the frame's keys, at most one dash, and the attack.
RacePolicy ==
    /\ UNCHANGED <<actions, device, hist, runner, tracker, store, service, pacing, scene>>
    /\ race.th["runner"].pc = "policy"
    /\ \E keys \in SUBSET RaceKeys, dash \in {<<>>, <<"left">>}, attack \in BOOLEAN :
          race' = [At_(race, "runner", "f_dash") EXCEPT
                      !.desired = keys, !.queued = dash, !.want_attack = attack]

\* flush: "if self._queued_dashes", the key of the dash, and keyUp if the key
\* is in self._held_keys (actions.py:111-117).
RaceFlushDash ==
    /\ UNCHANGED <<actions, device, hist, runner, tracker, store, service, pacing, scene>>
    /\ race.th["runner"].pc = "f_dash"
    /\ IF race.queued = <<>>
       THEN race' = At_(race, "runner", "f_release")
       ELSE LET key == IF race.queued[1] = "left" THEN "a" ELSE "d"
            IN IF key \in HeldKeys(race)
               THEN race' = [At_(race, "runner", "f_discard") EXCEPT
                                !.th["runner"].key = key, !.down = race.down \ {key}]
               ELSE race' = [At_(race, "runner", "f_press") EXCEPT
                                !.th["runner"].key = key]

\* self._held_keys.discard(key) (actions.py:118): the object is changed in
\* place.
RaceFlushDiscard ==
    /\ UNCHANGED <<actions, device, hist, runner, tracker, store, service, pacing, scene>>
    /\ race.th["runner"].pc = "f_discard"
    /\ race' = [At_(race, "runner", "f_press") EXCEPT
                   !.objs[race.held_obj] = @ \ {race.th["runner"].key}]

\* press, sleep, press (actions.py:121-123): the key ends up released.
RaceFlushPress ==
    /\ UNCHANGED <<actions, device, hist, runner, tracker, store, service, pacing, scene>>
    /\ race.th["runner"].pc = "f_press"
    /\ race' = [At_(race, "runner", "f_release") EXCEPT
                   !.down = race.down \ {race.th["runner"].key}]

\* keys_to_release = self._held_keys - self._desired_keys (actions.py:129)
RaceFlushToRelease ==
    /\ UNCHANGED <<actions, device, hist, runner, tracker, store, service, pacing, scene>>
    /\ race.th["runner"].pc = "f_release"
    /\ race' = [At_(race, "runner", "f_topress") EXCEPT
                   !.th["runner"].keys_to_release = HeldKeys(race) \ race.desired]

\* keys_to_press = self._desired_keys - self._held_keys (actions.py:130)
RaceFlushToPress ==
    /\ UNCHANGED <<actions, device, hist, runner, tracker, store, service, pacing, scene>>
    /\ race.th["runner"].pc = "f_topress"
    /\ race' = [At_(race, "runner", "f_up") EXCEPT
                   !.th["runner"].keys_to_press = race.desired \ HeldKeys(race)]

\* for key in keys_to_release: keyUp(key) (actions.py:132-133)
RaceFlushKeyUps ==
    /\ UNCHANGED <<actions, device, hist, runner, tracker, store, service, pacing, scene>>
    /\ race.th["runner"].pc = "f_up"
    /\ race' = [At_(race, "runner", "f_down") EXCEPT
                   !.down = race.down \ race.th["runner"].keys_to_release]

\* for key in keys_to_press: keyDown(key) (actions.py:134-135)
RaceFlushKeyDowns ==
    /\ UNCHANGED <<actions, device, hist, runner, tracker, store, service, pacing, scene>>
    /\ race.th["runner"].pc = "f_down"
    /\ race' = [At_(race, "runner", "f_bind") EXCEPT
                   !.down = race.down \cup race.th["runner"].keys_to_press]

\* self._held_keys = set(self._desired_keys) (actions.py:138): the attribute
\* is bound to a new object.
RaceFlushBind ==
    /\ UNCHANGED <<actions, device, hist, runner, tracker, store, service, pacing, scene>>
    /\ race.th["runner"].pc = "f_bind"
    /\ race' = [At_(race, "runner", "f_mouse") EXCEPT
                   !.objs = Append(race.objs, race.desired),
                   !.held_obj = Len(race.objs) + 1]

\* The tests on _want_attack and _mouse_is_down and the mouseDown or mouseUp
\* call (actions.py:145-146, 148-149).
RaceFlushMouse ==
    /\ UNCHANGED <<actions, device, hist, runner, tracker, store, service, pacing, scene>>
    /\ race.th["runner"].pc = "f_mouse"
    /\ IF race.want_attack /\ ~race.mouse_is_down
       THEN race' = [At_(race, "runner", "f_mouse_true") EXCEPT !.button = TRUE]
       ELSE IF ~race.want_attack /\ race.mouse_is_down
            THEN race' = [At_(race, "runner", "f_mouse_false") EXCEPT !.button = FALSE]
            ELSE race' = At_(race, "runner", "f_reset")

\* self._mouse_is_down = True / False (actions.py:147, 150)
RaceFlushMouseFlag ==
    /\ UNCHANGED <<actions, device, hist, runner, tracker, store, service, pacing, scene>>
    /\ race.th["runner"].pc \in {"f_mouse_true", "f_mouse_false"}
    /\ race' = [At_(race, "runner", "f_reset") EXCEPT
                   !.mouse_is_down = (race.th["runner"].pc = "f_mouse_true")]

\* The reset of the intent (actions.py:153-156) and frame_count += 1
\* (script_runner.py:137).
RaceFlushReset ==
    /\ UNCHANGED <<actions, device, hist, runner, tracker, store, service, pacing, scene>>
    /\ race.th["runner"].pc = "f_reset"
    /\ race' = [At_(race, "runner", "loop") EXCEPT
                   !.desired = {}, !.queued = <<>>, !.want_attack = FALSE,
                   !.frames = race.frames + 1]

\* stop_event.set() in the monitoring loop (combat_learner.py:330, 336).
RaceSetStop ==
    /\ UNCHANGED <<actions, device, hist, runner, tracker, store, service, pacing, scene>>
    /\ race.th["controller"].pc = "monitor"
    /\ ~race.stop_event
    /\ race' = [race EXCEPT !.stop_event = TRUE]

\* learn_to_fight reaches its finally block and calls actions.release_all()
\* (combat_learner.py:259-261): after a join that timed out (343), or after
\* an exception that left the monitoring loop with the event not set.
RaceCleanup ==
    /\ UNCHANGED <<actions, device, hist, runner, tracker, store, service, pacing, scene>>
    /\ race.th["controller"].pc = "monitor"
    /\ race' = At_(race, "controller", "r_iter")

\* release_all: "for key in self._held_keys" makes the iterator
\* (actions.py:160).
RaceReleaseIter(t) ==
    /\ UNCHANGED <<actions, device, hist, runner, tracker, store, service, pacing, scene>>
    /\ race.th[t].pc = "r_iter"
    /\ race' = [At_(race, t, "r_next") EXCEPT
                   !.th[t].it = [obj |-> race.held_obj,
                                 used |-> Cardinality(HeldKeys(race)),
                                 seen |-> {}]]

\* One turn of the for loop (actions.py:160-161): the iterator raises
\* RuntimeError("Set changed size during iteration") when the size of its set
\* is no longer the size it was made with; it yields an element not yet
\* yielded, for which keyUp is called; or it is exhausted.
RaceIterNext(r, t) ==
    LET it == r.th[t].it
        rest == r.objs[it.obj] \ it.seen
    IN IF Cardinality(r.objs[it.obj]) # it.used
       THEN {At_(r, t, "raised")}
       ELSE IF rest = {}
            THEN {At_(r, t, "r_mouse")}
            ELSE {[r EXCEPT !.th[t].it.seen = it.seen \cup {key},
                            !.down = r.down \ {key}] : key \in rest}

RaceReleaseNext(t) ==
    /\ UNCHANGED <<actions, device, hist, runner, tracker, store, service, pacing, scene>>
    /\ race.th[t].pc = "r_next"
    /\ race' \in RaceIterNext(race, t)

\* "if self._mouse_is_down: pydirectinput.mouseUp()" (actions.py:162-163)
RaceReleaseMouse(t) ==
    /\ UNCHANGED <<actions, device, hist, runner, tracker, store, service, pacing, scene>>
    /\ race.th[t].pc = "r_mouse"
    /\ IF race.mouse_is_down
       THEN race' = [At_(race, t, "r_mouse_false") EXCEPT !.button = FALSE]
       ELSE race' = At_(race, t, "r_clear")

\* self._mouse_is_down = False (actions.py:164)
RaceReleaseMouseFlag(t) ==
    /\ UNCHANGED <<actions, device, hist, runner, tracker, store, service, pacing, scene>>
    /\ race.th[t].pc = "r_mouse_false"
    /\ race' = [At_(race, t, "r_clear") EXCEPT !.mouse_is_down = FALSE]

\* self._held_keys.clear() (actions.py:165): the object the attribute is
\* bound to now; release_all returns.
RaceReleaseClear(t) ==
    /\ UNCHANGED <<actions, device, hist, runner, tracker, store, service, pacing, scene>>
    /\ race.th[t].pc = "r_clear"
    /\ race' = [At_(race, t, "done") EXCEPT !.objs[race.held_obj] = {}]

(***************************************************************************)
(*                     Initial state and specifications                    *)
(***************************************************************************)

TrackerInit == TrackerNew(CHOOSE a \in TrackerArgs : a.max_workers = 2 /\ a.skip_full_scan)

Init ==
    /\ actions = ActionsInit
    /\ device = DeviceInit
    /\ hist = HistInit
    /\ runner = RunnerInit("loop")
    /\ tracker = TrackerInit
    /\ store = StoreInit
    /\ service = ServiceInit
    /\ pacing = PacingInit
    /\ scene = SceneInit
    /\ race = RaceInit

\* The Actions instance driven by any sequence of declaration calls, flushes
\* and release_all calls.
NextActions ==
    \/ MoveLeft /\ UNCHANGED <<runner, tracker, store, service, pacing, scene, race>>
    \/ MoveRight /\ UNCHANGED <<runner, tracker, store, service, pacing, scene, race>>
    \/ FlyUp /\ UNCHANGED <<runner, tracker, store, service, pacing, scene, race>>
    \/ MoveDown /\ UNCHANGED <<runner, tracker, store, service, pacing, scene, race>>
    \/ MoveDownFast /\ UNCHANGED <<runner, tracker, store, service, pacing, scene, race>>
    \/ AttackAt /\ UNCHANGED <<runner, tracker, store, service, pacing, scene, race>>
    \/ DashLeft /\ UNCHANGED <<runner, tracker, store, service, pacing, scene, race>>
    \/ DashRight /\ UNCHANGED <<runner, tracker, store, service, pacing, scene, race>>
    \/ DoFlush /\ UNCHANGED <<runner, tracker, store, service, pacing, scene, race>>
    \/ DoReleaseAll /\ UNCHANGED <<runner, tracker, store, service, pacing, scene, race>>

SpecActions == Init /\ [][NextActions]_vars

\* Either mode of the run loop, from a fresh Actions instance.
InitRunner ==
    /\ actions = ActionsInit
    /\ device = DeviceInit
    /\ hist = HistInit
    /\ runner \in {RunnerInit(m) : m \in {"loop", "timed"}}
    /\ tracker = TrackerInit
    /\ store = StoreInit
    /\ service = ServiceInit
    /\ pacing = PacingInit
    /\ scene = SceneInit
    /\ race = RaceInit

NextRunner ==
    \/ LoopTop
    \/ PolicyReturn
    \/ PolicyRaise
    \/ FlushOk
    \/ FlushRaise
    \/ Pace
    \/ Interrupt
    \/ SetStop
    \/ Finally

SpecRunner == InitRunner /\ [][NextRunner]_vars

\* The thread of the run loop keeps running: the loop condition is evaluated,
\* the pacing sleep ends and the finally block runs; the policy call ends (it
\* returns or raises) and so does flush().  An interrupt and the setting of
\* stop_event may never happen.
RunnerFairness ==
    /\ WF_vars(LoopTop)
    /\ WF_vars(Pace)
    /\ WF_vars(Finally)
    /\ []<>(runner.pc # "policy")
    /\ []<>(runner.pc # "flush")

SpecRunnerFair == SpecRunner /\ RunnerFairness

\* A tracker built from any of the argument sets, running find_all() cycles.
InitTracker ==
    /\ actions = ActionsInit
    /\ device = DeviceInit
    /\ hist = HistInit
    /\ runner = RunnerInit("loop")
    /\ tracker \in {TrackerNew(a) : a \in TrackerArgs}
    /\ store = StoreInit
    /\ service = ServiceInit
    /\ pacing = PacingInit
    /\ scene = SceneInit
    /\ race = RaceInit

NextTracker ==
    \/ Capture
    \/ \E t \in Templates : MatchOne(t)
    \/ Collect

SpecTracker == InitTracker /\ [][NextTracker]_vars

\* GameState with one writer thread and one reader thread.
InitStore == Init

NextStore ==
    \/ UpdateAcquire
    \/ UpdateBuild
    \/ UpdateMerge
    \/ UpdateStore
    \/ UpdateRelease
    \/ ReadAcquire
    \/ GetAllCopy
    \/ GetFoundIter
    \/ GetFoundNext
    \/ ReadRelease

SpecStore == InitStore /\ [][NextStore]_vars

\* GameState with one writer thread and one caller that reads with any of the
\* three read methods and writes into what it was given.
NextStoreCaller ==
    \/ UpdateAcquire
    \/ UpdateBuild
    \/ UpdateMerge
    \/ UpdateStore
    \/ UpdateRelease
    \/ ReadAcquire
    \/ GetAllCopy
    \/ GetFoundIter
    \/ GetFoundNext
    \/ ReadRelease
    \/ GetEntityAcquire
    \/ GetEntityGet
    \/ MutateObservation
    \/ MutateSnapshot

SpecStoreCaller == InitStore /\ [][NextStoreCaller]_vars

\* TrackerService driven by any sequence of start() and stop() calls, with
\* main() going on to the run loop after start(); the templates load or not.
InitService ==
    /\ actions = ActionsInit
    /\ device = DeviceInit
    /\ hist = HistInit
    /\ runner = RunnerInit("loop")
    /\ tracker = TrackerInit
    /\ store = StoreInit
    /\ service \in {ServiceNew(ok) : ok \in BOOLEAN}
    /\ pacing = PacingInit
    /\ scene = SceneInit
    /\ race = RaceInit

NextService ==
    \/ Start
    \/ EnterRunLoop
    \/ StopBegin
    \/ StopJoined
    \/ StopTimeout
    \/ StopPrint
    \/ \E th \in 1..MaxStarts : ThreadConstruct(th)
    \/ \E th \in 1..MaxStarts : ThreadTop(th)
    \/ \E th \in 1..MaxStarts : ThreadFindAll(th)
    \/ \E th \in 1..MaxStarts : PublishAcquire(th)
    \/ UpdateBuild
    \/ UpdateMerge
    \/ UpdateStore
    \/ UpdateRelease
    \/ \E th \in 1..MaxStarts : PublishReturn(th)
    \/ \E th \in 1..MaxStarts : ThreadCount(th)
    \/ \E th \in 1..MaxStarts : ThreadPace(th)
    \/ \E th \in 1..MaxStarts : ThreadShutdown(th)

SpecService == InitService /\ [][NextService]_vars

\* The tracking thread of a started TrackerService publishing its cycles while
\* the runner's thread (the policy, the periodic log line) reads the store
\* with get_all_entities and get_found_entities.
NextPerception ==
    \/ Start
    \/ \E th \in 1..MaxStarts : ThreadConstruct(th)
    \/ \E th \in 1..MaxStarts : ThreadTop(th)
    \/ \E th \in 1..MaxStarts : ThreadFindAll(th)
    \/ \E th \in 1..MaxStarts : PublishAcquire(th)
    \/ UpdateBuild
    \/ UpdateMerge
    \/ UpdateStore
    \/ UpdateRelease
    \/ \E th \in 1..MaxStarts : PublishReturn(th)
    \/ \E th \in 1..MaxStarts : ThreadCount(th)
    \/ \E th \in 1..MaxStarts : ThreadPace(th)
    \/ ReadAcquire
    \/ GetAllCopy
    \/ GetFoundIter
    \/ GetFoundNext
    \/ ReadRelease

SpecPerception == Init /\ [][NextPerception]_vars

\* One tracking thread running whole cycles: find_all() on a tracker asked to
\* skip the full scan, as the service asks by default, with the worker pool or
\* without, then the publication of the results.
InitCycle ==
    /\ actions = ActionsInit
    /\ device = DeviceInit
    /\ hist = HistInit
    /\ runner = RunnerInit("loop")
    /\ tracker \in {TrackerNew(a) : a \in {c \in TrackerArgs : c.skip_full_scan}}
    /\ store = StoreInit
    /\ service = ServiceInit
    /\ pacing = PacingInit
    /\ scene = SceneInit
    /\ race = RaceInit

NextCycle ==
    \/ Start
    \/ \E th \in 1..MaxStarts : ThreadConstruct(th)
    \/ \E th \in 1..MaxStarts : ThreadTop(th)
    \/ \E th \in 1..MaxStarts : CycleCapture(th)
    \/ \E t \in Templates : MatchOne(t)
    \/ \E th \in 1..MaxStarts : CycleCollect(th)
    \/ \E th \in 1..MaxStarts : PublishAcquire(th)
    \/ UpdateBuild
    \/ UpdateMerge
    \/ UpdateStore
    \/ UpdateRelease
    \/ \E th \in 1..MaxStarts : PublishReturn(th)
    \/ \E th \in 1..MaxStarts : ThreadCount(th)
    \/ \E th \in 1..MaxStarts : ThreadPace(th)

SpecCycle == InitCycle /\ [][NextCycle]_vars

\* The tracking of one target over a few cycles, each on any of the frames of
\* Sightings.
NextEndToEnd ==
    \/ SceneFindAll
    \/ ScenePublish

SpecEndToEnd == Init /\ [][NextEndToEnd]_vars

\* The runner thread of a fight attempt and the cleanup of learn_to_fight,
\* interleaved statement by statement.
NextCleanupRace ==
    \/ RaceLoopTop
    \/ RacePolicy
    \/ RaceFlushDash
    \/ RaceFlushDiscard
    \/ RaceFlushPress
    \/ RaceFlushToRelease
    \/ RaceFlushToPress
    \/ RaceFlushKeyUps
    \/ RaceFlushKeyDowns
    \/ RaceFlushBind
    \/ RaceFlushMouse
    \/ RaceFlushMouseFlag
    \/ RaceFlushReset
    \/ RaceSetStop
    \/ RaceCleanup
    \/ \E t \in RaceThreads : RaceReleaseIter(t)
    \/ \E t \in RaceThreads : RaceReleaseNext(t)
    \/ \E t \in RaceThreads : RaceReleaseMouse(t)
    \/ \E t \in RaceThreads : RaceReleaseMouseFlag(t)
    \/ \E t \in RaceThreads : RaceReleaseClear(t)

SpecCleanupRace == Init /\ [][NextCleanupRace]_vars

\* The pacing step of a loop, for the default rates and a range of elapsed
\* times.
NextPacing ==
    \/ PacingMeasure
    \/ PacingPace
    \/ PacingNext

SpecPacing == Init /\ [][NextPacing]_vars

(***************************************************************************)
(*                          Claims about Actions                           *)
(***************************************************************************)

\* What the last flush() found and did, per key.
Declared(k) == k \in hist.before.desired_keys
DeclaredBefore(k) == k \in hist.prev_keys
Downs(k) == Count(KeyCall("keyDown", k))
Ups(k) == Count(KeyCall("keyUp", k))
DashQueue == hist.before.queued_dashes
\* The flushed frame executed a dash on key k.
DashOn(k) == DashQueue # <<>> /\ DashKey(DashQueue[1]) = k

\* The per-frame form of "one press on the first frame of a run of declared
\* frames, none later; one release on the first frame that omits it, none later".
OnePressOneRelease(k) ==
    /\ Downs(k) = (IF Declared(k) /\ ~DeclaredBefore(k) THEN 1 ELSE 0)
    /\ Ups(k) = (IF ~Declared(k) /\ DeclaredBefore(k) THEN 1 ELSE 0)

\* C1 as stated: in every frame, for every movement key k, flush() issues
\* keyDown(k) exactly once if k is declared and was not declared in the frame
\* before and never otherwise, and keyUp(k) exactly once if k is not declared
\* and was declared in the frame before and never otherwise.
C1_Original == hist.op = "flush" => \A k \in Keys : OnePressOneRelease(k)

\* C1 amended: the same, except in a frame that executes a dash on k while k is
\* declared in that frame and was declared in the frame before it: there
\* flush() issues one keyUp(k) (before the double-tap) and one keyDown(k)
\* (the re-press after it).
C1_HoldIdempotent ==
    hist.op = "flush" =>
        \A k \in Keys :
            IF DashOn(k) /\ Declared(k) /\ DeclaredBefore(k)
            THEN Downs(k) = 1 /\ Ups(k) = 1
            ELSE OnePressOneRelease(k)

\* C1 witness: a frame that keeps a key declared a second time and issues
\* neither press nor release of it.
C1_Witness ==
    /\ hist.op = "flush"
    /\ \E k \in Keys : Declared(k) /\ DeclaredBefore(k) /\ Downs(k) = 0 /\ Ups(k) = 0
                       /\ k \in actions.held_keys

\* C2: a frame with at least one queued dash makes flush() issue exactly two
\* press calls, both on the key of the first queued direction, and leaves the
\* dash queue empty; a frame without a queued dash issues no press.
C2_OneDashFirstQueued ==
    hist.op = "flush" =>
        /\ actions.queued_dashes = <<>>
        /\ CountFn("press") = (IF DashQueue = <<>> THEN 0 ELSE 2)
        /\ DashQueue # <<>> => Count(KeyCall("press", DashKey(DashQueue[1]))) = 2

\* C2 witness: two dashes of different directions were queued, and the flush
\* double-tapped the first one's key.
C2_Witness ==
    /\ hist.op = "flush"
    /\ Len(DashQueue) >= 2
    /\ DashQueue[1] = "right" /\ DashQueue[2] = "left"
    /\ Count(KeyCall("press", "d")) = 2
    /\ CountFn("press") = 2

\* C3: release_all() issues one keyUp per held key and one mouseUp exactly if
\* the button flag was set, nothing else, and leaves no key held and the flag
\* unset; on a clean instance it issues no call and changes nothing.
C3_ReleaseAll ==
    hist.op = "release_all" =>
        /\ \A k \in Keys : Ups(k) = (IF k \in hist.before.held_keys THEN 1 ELSE 0)
        /\ Count(PlainCall("mouseUp")) = (IF hist.before.mouse_is_down THEN 1 ELSE 0)
        /\ CountFn("keyUp") + CountFn("mouseUp") =
               Cardinality(hist.before.held_keys) + (IF hist.before.mouse_is_down THEN 1 ELSE 0)
        /\ \A fn \in {"keyDown", "press", "moveTo", "mouseDown", "sleep"} : CountFn(fn) = 0
        /\ actions.held_keys = {}
        /\ ~actions.mouse_is_down
        /\ (hist.before.held_keys = {} /\ ~hist.before.mouse_is_down) =>
               (device.calls = <<>> /\ actions = hist.before)

\* C3 witness: release_all() with "a" held and the button down.
C3_Witness ==
    /\ hist.op = "release_all"
    /\ hist.before.held_keys = {"a"}
    /\ hist.before.mouse_is_down
    /\ actions.held_keys = {}
    /\ Count(PlainCall("mouseUp")) = 1
    /\ Ups("a") = 1


\* C14: the held-key set is the set of keys physically down and the
\* mouse-down flag is the physical state of the button, after every flush()
\* and release_all() and between them; and no call of the last operation asked
\* the device for the state it was already in (no keyUp of a key that is up,
\* no keyDown of a key that is down).
C14_HeldMirrorsDevice ==
    /\ actions.held_keys = device.keys
    /\ actions.mouse_is_down = device.button
    /\ ~device.redundant

\* C14 witness: a flush() that dashed on a key that was held, and left keys
\* held and the button down.
C14_Witness ==
    /\ hist.op = "flush"
    /\ hist.before.queued_dashes # <<>>
    /\ DashKey(hist.before.queued_dashes[1]) \in hist.before.held_keys
    /\ actions.held_keys # {}
    /\ actions.held_keys # hist.before.held_keys
    /\ actions.mouse_is_down

\* C15: a declaration call leaves the held-key set, the mouse-down flag and
\* the physical keys and button as they were and makes no device call; device
\* calls are made by flush() and release_all() only.
C15_DeclarationsOnlyIntent ==
    [][/\ hist'.op = "declare" =>
             /\ actions'.held_keys = actions.held_keys
             /\ actions'.mouse_is_down = actions.mouse_is_down
             /\ device'.keys = device.keys
             /\ device'.button = device.button
             /\ device'.calls = <<>>
       /\ device'.calls # <<>> => hist'.op \in {"flush", "release_all"}]_vars

\* C15 witness: declarations of every kind made while a key is held and the
\* button is down.
C15_Witness ==
    /\ hist.op = "declare"
    /\ actions.held_keys # {}
    /\ actions.mouse_is_down
    /\ actions.desired_keys \ actions.held_keys # {}
    /\ actions.queued_dashes # <<>>
    /\ actions.want_attack

\* The function of the calls of group i of the last operation (the calls of
\* one group have the same function).
FnAt(i) == (CHOOSE c \in device.calls[i] : TRUE).fn
Where(fns) == {i \in DOMAIN device.calls : FnAt(i) \in fns}
Before(is, js) == \A i \in is, j \in js : i < j

\* C16: the device calls of one flush() come in the order dash (release of
\* the dash key if it was held, press, pause, press), movement key releases,
\* movement key presses, pointer move, button press or release, and the
\* per-frame intent is reset at the end; so the pointer is moved before the
\* button goes down when an attack is newly requested, and no movement event
\* comes before a dash event.
C16_FlushOrder ==
    hist.op = "flush" =>
        LET b == hist.before
            dash == Where({"press", "sleep"})
            ups == Where({"keyUp"})
            downs == Where({"keyDown"})
            move == Where({"moveTo"})
            button == Where({"mouseDown", "mouseUp"})
        IN /\ Before(dash, downs)
           /\ \A i \in ups : (\E j \in dash : i < j) =>
                 /\ device.calls[i] = {KeyCall("keyUp", DashKey(b.queued_dashes[1]))}
                 /\ i = 1
           /\ Before(ups, downs)
           /\ Before(dash \cup ups \cup downs, move)
           /\ Before(dash \cup ups \cup downs \cup move, button)
           /\ Cardinality(move) = (IF b.mouse_target # None THEN 1 ELSE 0)
           /\ (b.want_attack /\ ~b.mouse_is_down) =>
                 \E i \in move, j \in button :
                    /\ i < j
                    /\ device.calls[i] = {MoveCall(b.mouse_target)}
                    /\ device.calls[j] = {PlainCall("mouseDown")}
           /\ b.queued_dashes # <<>> => dash = (IF 1 \in ups /\ DashKey(b.queued_dashes[1]) \in b.held_keys
                                                THEN {2, 3, 4} ELSE {1, 2, 3})
           /\ actions.desired_keys = {} /\ actions.mouse_target = None
           /\ ~actions.want_attack /\ actions.queued_dashes = <<>>

\* C16 witness: a flush() with all five steps at work: a dash on a held key,
\* a release, a press, the pointer move and the button going down.
C16_Witness ==
    /\ hist.op = "flush"
    /\ Where({"press"}) # {}
    /\ Cardinality(Where({"keyUp"})) = 2
    /\ Where({"keyDown"}) # {}
    /\ Where({"moveTo"}) # {}
    /\ Where({"mouseDown"}) # {}

\* C17: a flush() issues one mouseDown when the frame asked for the attack
\* and the button was up, one mouseUp when the frame did not ask and the
\* button was down, and no button call otherwise; after it the button is down
\* exactly when the frame asked for the attack, so a run of frames asking for
\* it presses once and the first frame without it releases once.
C17_ButtonIdempotent ==
    hist.op = "flush" =>
        LET b == hist.before
        IN /\ CountFn("mouseDown") = (IF b.want_attack /\ ~b.mouse_is_down THEN 1 ELSE 0)
           /\ CountFn("mouseUp") = (IF ~b.want_attack /\ b.mouse_is_down THEN 1 ELSE 0)
           /\ actions.mouse_is_down = b.want_attack
           /\ device.button = b.want_attack

\* C17 witness: a frame that asks for the attack while the button is already
\* down from the frame before: no button call.
C17_Witness ==
    /\ hist.op = "flush"
    /\ hist.before.want_attack
    /\ hist.before.mouse_is_down
    /\ CountFn("mouseDown") = 0
    /\ CountFn("mouseUp") = 0
    /\ device.button

\* C23: after flush() every per-frame intent field is empty, whatever the
\* frame declared, and the held-key set and mouse flag are that frame's desired
\* keys and attack flag; so a frame that declares nothing (whatever the frame
\* before it declared) holds nothing and presses, dashes, aims and clicks
\* nothing.
C23_IntentResetAfterFlush ==
    hist.op = "flush" =>
        LET b == hist.before
        IN /\ actions.desired_keys = {}
           /\ actions.mouse_target = None
           /\ ~actions.want_attack
           /\ actions.queued_dashes = <<>>
           /\ actions.held_keys = b.desired_keys
           /\ actions.mouse_is_down = b.want_attack
           /\ (b.desired_keys = {} /\ b.mouse_target = None /\ ~b.want_attack
                  /\ b.queued_dashes = <<>>) =>
                 /\ device.keys = {} /\ ~device.button
                 /\ \A fn \in {"keyDown", "press", "sleep", "moveTo", "mouseDown"} :
                       CountFn(fn) = 0

\* C23 witness: a flush() of a frame that declared keys, an aim, the attack
\* and two dashes.
C23_Witness ==
    /\ hist.op = "flush"
    /\ hist.before.desired_keys # {}
    /\ hist.before.mouse_target # None
    /\ hist.before.want_attack
    /\ Len(hist.before.queued_dashes) = 2
    /\ actions.held_keys # {}
    /\ actions.mouse_is_down

\* C23 witness, second case: a frame that declared nothing, after a frame
\* that held keys and the button.
C23_WitnessIdleFrame ==
    /\ hist.op = "flush"
    /\ hist.before.desired_keys = {} /\ ~hist.before.want_attack
    /\ hist.before.queued_dashes = <<>>
    /\ hist.before.held_keys # {}
    /\ hist.before.mouse_is_down

\* The positions in the call log of the calls equal to c.
At(c) == {i \in DOMAIN device.calls : c \in device.calls[i]}

\* C24: a dash on key k starts the flush()'s calls: keyUp(k) first when k was
\* held, then press(k), the pause, press(k).  When k was held: that keyUp is
\* the only keyUp(k) of the flush, and k is pressed down again, once and after
\* the double-tap, exactly when k is also desired that frame.
C24_DashOnHeldKey ==
    \A k \in {"a", "d"} :
        (hist.op = "flush" /\ DashOn(k)) =>
            LET b == hist.before
                o == IF k \in b.held_keys THEN 1 ELSE 0
            IN /\ Len(device.calls) >= o + 3
               /\ device.calls[o + 1] = {KeyCall("press", k)}
               /\ device.calls[o + 2] = {PlainCall("sleep")}
               /\ device.calls[o + 3] = {KeyCall("press", k)}
               /\ At(KeyCall("press", k)) = {o + 1, o + 3}
               /\ k \in b.held_keys =>
                     /\ device.calls[1] = {KeyCall("keyUp", k)}
                     /\ At(KeyCall("keyUp", k)) = {1}
                     /\ Downs(k) = (IF k \in b.desired_keys THEN 1 ELSE 0)
                     /\ \A i \in At(KeyCall("keyDown", k)) : i > 4
                     /\ (k \in actions.held_keys) = (k \in b.desired_keys)
                     /\ (k \in device.keys) = (k \in b.desired_keys)

\* C24 witness: a dash on a held key that the frame also desires: released,
\* double-tapped and pressed down again.
C24_Witness ==
    /\ hist.op = "flush"
    /\ DashOn("a")
    /\ "a" \in hist.before.held_keys
    /\ "a" \in hist.before.desired_keys
    /\ Downs("a") = 1 /\ Ups("a") = 1

\* C24 witness, second case: a dash on a held key that the frame does not
\* desire: released once.
C24_WitnessNotDesired ==
    /\ hist.op = "flush"
    /\ DashOn("d")
    /\ "d" \in hist.before.held_keys
    /\ "d" \notin hist.before.desired_keys
    /\ hist.before.held_keys \ {"d"} # {}

(***************************************************************************)
(*                        Claims about the run loop                        *)
(***************************************************************************)

FrameSteps == <<"policy", "flush", "pace">>

IsPrefix(t, u) == Len(t) <= Len(u) /\ \A i \in 1..Len(t) : t[i] = u[i]

\* C5: the steps of a frame are the policy call, one flush(), the pacing step,
\* in this order; a frame is complete when the loop is back at its top; the
\* flush() of a frame works on the intent the policy call left, also when the
\* policy raised; and a policy error never ends the loop: when the loop is left
\* in a frame whose policy raised, flush() was called in that frame (or the
\* run was interrupted).
C5_FrameOrder ==
    /\ IsPrefix(runner.trace, FrameSteps)
    /\ (runner.pc = "top" /\ runner.frame_count > 0) => runner.trace = FrameSteps
    /\ runner.pc = "flush" => runner.trace = <<"policy">>
    /\ runner.pc = "pace" =>
          /\ runner.trace = <<"policy", "flush">>
          /\ hist.op = "flush"
          /\ hist.before = runner.intent
    /\ (runner.policy_error /\ runner.pc \in {"finally", "done"}) =>
          (\E i \in DOMAIN runner.trace : runner.trace[i] = "flush")
              \/ runner.exit = "interrupt"

\* C5 witness: the first frame's policy raised after attack_at; its flush()
\* pressed the button all the same, and the second frame has been flushed too.
C5_Witness ==
    /\ runner.pc = "pace"
    /\ runner.frame_count = 2
    /\ runner.errors
    /\ hist.op = "flush"
    /\ hist.before.mouse_is_down

\* C18: in run_script_timed the loop is left for cancellation only between
\* whole frames: no frame begins once stop_event is set (when it is set before
\* the first iteration, no policy call and no flush take place), at most one
\* flush() completes after it is set, release_all() has run once when the run
\* has ended, and, the policy call always ending, a run whose stop_event is
\* set ends.
C18_Safety ==
    /\ runner.frames_after_stop = 0
    /\ runner.flushes_after_stop <= 1
    /\ runner.exit = "cancel" =>
          /\ runner.mode = "timed" /\ runner.stop_event
          /\ runner.trace = (IF runner.frame_count = 0 THEN <<>>
                             ELSE <<"policy", "flush", "pace">>)
          /\ runner.frame_count = 0 => hist.op \in {"init", "release_all"}
          /\ runner.pc \in {"finally", "done"}
          /\ runner.pc = "done" =>
                /\ runner.released = 1
                /\ hist.op = "release_all"
                /\ actions.held_keys = {} /\ ~actions.mouse_is_down

C18_Cancellation ==
    /\ []C18_Safety
    /\ (runner.mode = "timed" /\ runner.stop_event) ~> (runner.pc = "done")

\* C18 witness: stop_event was set while a frame was in progress; that frame's
\* flush() completed, the loop was left at the next test and the run has ended.
C18_Witness ==
    /\ runner.mode = "timed"
    /\ runner.exit = "cancel"
    /\ runner.pc = "done"
    /\ runner.flushes_after_stop = 1
    /\ runner.frame_count = 2

\* C18 witness, second case: stop_event was set before the first iteration.
C18_WitnessEarly ==
    /\ runner.mode = "timed"
    /\ runner.exit = "cancel"
    /\ runner.pc = "done"
    /\ runner.frame_count = 0

(***************************************************************************)
(*                        Claims about the tracker                         *)
(***************************************************************************)

DoneTasks == {t \in Templates : tracker.tasks[t].st = "done"}
Tiers(log) == {log[i].tier : i \in DOMAIN log}
TierRank(tier) ==
    CASE tier = "roi" -> 1 [] tier = "coarse" -> 2 [] tier = "refine" -> 3 [] tier = "full" -> 4
TierTag(tier) ==
    CASE tier = "roi" -> "Heuristic" [] tier = "refine" -> "Pyramid" [] tier = "full" -> "Full Scan"
      [] tier = "coarse" -> "none"

\* A full-resolution match at or above the confidence threshold.
Decides(e) == e.tier \in {"roi", "refine", "full"} /\ e.score >= tracker.cfg.confidence

\* A coarse match at or above nine tenths of the confidence threshold.
CoarsePasses(e) == e.tier = "coarse" /\ e.score * 10 >= tracker.cfg.confidence * 9

\* C6: the matches made for one template in one cycle come in the order ROI,
\* pyramid (coarse, then refinement), full scan, each at most once; the
\* refinement is made only right after a coarse match that cleared the relaxed
\* threshold; and a match that clears the confidence threshold is the last
\* one made and gives the result: no pyramid or full-scan match follows a ROI
\* success, no full-scan match follows a pyramid success.
C6_TierOrder ==
    \A t \in DoneTasks :
        LET r == tracker.tasks[t].result
            log == r.log
        IN /\ \A i, j \in DOMAIN log : i < j => TierRank(log[i].tier) < TierRank(log[j].tier)
           /\ \A i \in DOMAIN log : log[i].tier = "refine" => i > 1 /\ CoarsePasses(log[i - 1])
           /\ \A i \in DOMAIN log :
                 Decides(log[i]) => /\ i = Len(log)
                                    /\ r.found
                                    /\ r.score = log[i].score
           /\ r.method = "Heuristic" => Tiers(log) = {"roi"}
           /\ r.method = "Pyramid" => "full" \notin Tiers(log)

\* C6 witness: with the pyramid and the full scan both enabled, one template
\* was found by its ROI match alone and the other went through all four
\* matches.
C6_Witness ==
    /\ tracker.cfg.use_pyramid /\ ~tracker.cfg.skip_full_scan
    /\ \E t, u \in DoneTasks :
          /\ tracker.tasks[t].result.method = "Heuristic"
          /\ Len(tracker.tasks[t].result.log) = 1
          /\ Len(tracker.tasks[u].result.log) = 4

\* C7: last_pos is set exactly when the result last returned for the template
\* was found, and is then that result's (x, y); so after a found=false result
\* the next cycle makes no ROI match for the template and cannot tag its
\* result Heuristic, and a ROI match that is made is placed around the
\* position of the result last returned.
C7_LossClearsLastPos ==
    \A t \in Templates :
        LET k == tracker.tasks[t]
            s == tracker.templates[t]
        IN /\ s.last_pos = IF k.prev.found THEN <<k.prev.x, k.prev.y>> ELSE None
           /\ s.found = k.prev.found
           /\ (tracker.pc = "matching" /\ k.st = "done" /\ ~k.prev.found) =>
                 /\ "roi" \notin Tiers(k.result.log)
                 /\ k.result.method # "Heuristic"
           /\ (tracker.pc = "matching" /\ k.st = "done" /\ "roi" \in Tiers(k.result.log)) =>
                 LET e == k.result.log[1]
                 IN /\ e.region[1] = Max(0, k.prev.x - tracker.cfg.search_margin)
                    /\ e.region[2] = Max(0, k.prev.y - tracker.cfg.search_margin)

\* C7 witness: a template that was tracked (its cycle began with a ROI match)
\* has just been lost, and its last_pos is cleared.
C7_Witness ==
    /\ tracker.pc = "idle"
    /\ \E t \in DoneTasks :
          /\ ~tracker.tasks[t].result.found
          /\ "roi" \in Tiers(tracker.tasks[t].result.log)
          /\ tracker.templates[t].last_pos = None

\* C8: a found result carries the tag of the tier whose match cleared the
\* confidence threshold, which is the last match made, and that match's score
\* and position; a result is tagged Not Found exactly when it is found=false,
\* and then no match cleared the threshold and x, y and score are 0.
C8_TagProvenance ==
    \A t \in DoneTasks :
        LET r == tracker.tasks[t].result
            log == r.log
        IN /\ r.method \in {"Heuristic", "Pyramid", "Full Scan", "Not Found"}
           /\ r.found <=> r.method # "Not Found"
           /\ r.found =>
                 /\ Len(log) >= 1
                 /\ Decides(log[Len(log)])
                 /\ r.method = TierTag(log[Len(log)].tier)
                 /\ r.score = log[Len(log)].score
                 /\ r.x >= log[Len(log)].region[1]
                 /\ r.x + r.w <= log[Len(log)].region[1] + log[Len(log)].region[3]
                 /\ r.y >= log[Len(log)].region[2]
                 /\ r.y + r.h <= log[Len(log)].region[2] + log[Len(log)].region[4]
           /\ ~r.found =>
                 /\ \A i \in DOMAIN log : ~Decides(log[i])
                 /\ r.x = 0 /\ r.y = 0 /\ r.score = 0

\* C8 witness: the ROI match and the pyramid refinement both failed and the
\* full scan succeeded: the result is tagged Full Scan.
C8_Witness ==
    \E t \in DoneTasks :
        /\ tracker.tasks[t].result.method = "Full Scan"
        /\ Tiers(tracker.tasks[t].result.log) = {"roi", "coarse", "refine", "full"}

\* C9: once a cycle has begun it has made one capture and at most one
\* downscale (one with the pyramid, none without), with or without the worker
\* pool; every template's matcher is handed the frame of this cycle, the same
\* grayscale copy and the same downscaled copy, and every match it makes is on
\* an image of this cycle's capture.
C9_OneFramePerCycle ==
    (\E t \in Templates : tracker.tasks[t].st # "none") =>
        /\ tracker.grabs = 1
        /\ tracker.resizes <= 1
        /\ tracker.resizes = 1 <=> tracker.cfg.use_pyramid
        /\ tracker.frame_bgr = Image(tracker.seq, "bgr")
        /\ tracker.last_frame = tracker.frame_bgr
        /\ tracker.frame_gray.src \in {tracker.seq, NoImage.src}
        /\ tracker.frame_small.src \in {tracker.seq, NoImage.src}
        /\ \A t \in Templates :
              /\ tracker.tasks[t].st # "none"
              /\ tracker.tasks[t].frame_bgr = tracker.frame_bgr
              /\ tracker.tasks[t].frame_gray = tracker.frame_gray
              /\ tracker.tasks[t].frame_small = tracker.frame_small
              /\ \A i \in DOMAIN tracker.tasks[t].result.log :
                    tracker.tasks[t].result.log[i].image.src = tracker.seq

\* C9 witness: a later cycle on the worker pool with the pyramid has ended,
\* and both templates were matched on the downscaled copy of its capture.
C9_Witness ==
    /\ tracker.pc = "idle"
    /\ tracker.seq = 0
    /\ tracker.cfg.executor /\ tracker.cfg.use_pyramid
    /\ \A t \in Templates :
          /\ tracker.tasks[t].st = "done"
          /\ \E i \in DOMAIN tracker.tasks[t].result.log :
                tracker.tasks[t].result.log[i].image = tracker.frame_small

\* C25: a result is tagged Pyramid only when the coarse match cleared nine
\* tenths of the confidence threshold and the refinement that followed, on the
\* full-resolution frame, cleared the threshold itself; no refinement follows
\* a coarse match below the relaxed threshold; after a refinement that failed
\* the result is never Pyramid: the full scan is made when it is enabled and
\* the result is Not Found when it is not; and every found result carries a
\* score of the full-resolution frame at or above the threshold.
C25_PyramidNeedsRefinement ==
    \A t \in DoneTasks :
        LET r == tracker.tasks[t].result
            log == r.log
            cfg == tracker.cfg
            FullRes(e) == e.image.kind = (IF cfg.use_grayscale THEN "gray" ELSE "bgr")
        IN /\ r.method = "Pyramid" =>
                 \E i \in DOMAIN log :
                    /\ i + 1 = Len(log)
                    /\ log[i].tier = "coarse" /\ log[i].score * 10 >= cfg.confidence * 9
                    /\ log[i + 1].tier = "refine" /\ log[i + 1].score >= cfg.confidence
                    /\ FullRes(log[i + 1])
           /\ \A i \in DOMAIN log :
                 (log[i].tier = "coarse" /\ log[i].score * 10 < cfg.confidence * 9) =>
                    /\ "refine" \notin Tiers(log)
                    /\ r.method \in {"Full Scan", "Not Found"}
           /\ \A i \in DOMAIN log :
                 (log[i].tier = "refine" /\ log[i].score < cfg.confidence) =>
                    /\ r.method \in {"Full Scan", "Not Found"}
                    /\ cfg.skip_full_scan => r.method = "Not Found" /\ i = Len(log)
                    /\ ~cfg.skip_full_scan => i + 1 = Len(log) /\ log[i + 1].tier = "full"
           /\ r.found => r.score >= cfg.confidence /\ FullRes(log[Len(log)])

\* C25 witness: a coarse match between the two thresholds was refined, the
\* refinement failed, and with the full scan skipped the result is Not Found.
C25_Witness ==
    \E t \in DoneTasks :
        LET r == tracker.tasks[t].result
        IN /\ tracker.cfg.skip_full_scan
           /\ Len(r.log) >= 2
           /\ r.log[Len(r.log)].tier = "refine"
           /\ r.log[Len(r.log) - 1].score = 80
           /\ r.log[Len(r.log)].score = 80
           /\ r.method = "Not Found"

\* C25 witness, second case: the refinement failed and the full scan found
\* the template.
C25_WitnessFullScan ==
    \E t \in DoneTasks :
        LET r == tracker.tasks[t].result
        IN /\ r.method = "Full Scan"
           /\ \E i \in DOMAIN r.log : r.log[i].tier = "refine"

\* C27: the full scan is skipped only with the pyramid tier enabled, so one of
\* the two is always enabled; a template without a last position is therefore
\* searched at least once in every cycle, by the coarse match or by the full
\* scan first, and a Not Found result always follows at least one match.
C27_SomeRecoveryTier ==
    /\ tracker.cfg.skip_full_scan => tracker.cfg.use_pyramid
    /\ tracker.cfg.use_pyramid \/ ~tracker.cfg.skip_full_scan
    /\ \A t \in DoneTasks :
          LET k == tracker.tasks[t]
          IN /\ k.result.method = "Not Found" => Len(k.result.log) >= 1
             /\ (tracker.pc = "matching" /\ tracker.templates[t].last_pos = None) =>
                   /\ Len(k.result.log) >= 1
                   /\ k.result.log[1].tier = (IF tracker.cfg.use_pyramid THEN "coarse" ELSE "full")

\* C27 witness: the tracker was asked to skip the full scan without the
\* pyramid (the colour configuration); a template without a last position was
\* searched by the full scan and not found.
C27_Witness ==
    /\ tracker.cfg.downscale_factor = 100 /\ ~tracker.cfg.use_grayscale
    /\ tracker.pc = "matching"
    /\ \E t \in DoneTasks :
          /\ tracker.templates[t].last_pos = None
          /\ tracker.tasks[t].result.method = "Not Found"
          /\ Tiers(tracker.tasks[t].result.log) = {"full"}

\* The size of the image a match was made on, and of the template on it.
ImageW(e) == IF e.tier = "coarse" THEN tracker.cfg.screen_w_small ELSE tracker.cfg.screen_w
ImageH(e) == IF e.tier = "coarse" THEN tracker.cfg.screen_h_small ELSE tracker.cfg.screen_h
TemplateW(t, e) == IF e.tier = "coarse" THEN tracker.templates[t].w_small ELSE tracker.templates[t].w
TemplateH(t, e) == IF e.tier = "coarse" THEN tracker.templates[t].h_small ELSE tracker.templates[t].h
InFrame(t, x, y) ==
    /\ 0 <= x /\ x <= tracker.cfg.screen_w - tracker.templates[t].w
    /\ 0 <= y /\ y <= tracker.cfg.screen_h - tracker.templates[t].h

\* C30: every found result places the template inside the frame, so last_pos
\* is empty or such a place; every region that is searched lies inside the
\* image and is at least as large as the template; and a template with a last
\* position always gets its ROI match.
C30_PositionsInsideFrame ==
    \A t \in Templates :
        LET k == tracker.tasks[t]
            s == tracker.templates[t]
        IN /\ s.last_pos # None => InFrame(t, s.last_pos[1], s.last_pos[2])
           /\ k.st = "done" =>
                 /\ k.result.found => InFrame(t, k.result.x, k.result.y)
                 /\ \A i \in DOMAIN k.result.log :
                       LET e == k.result.log[i]
                       IN /\ e.region[1] >= 0 /\ e.region[2] >= 0
                          /\ e.region[1] + e.region[3] <= ImageW(e)
                          /\ e.region[2] + e.region[4] <= ImageH(e)
                          /\ e.region[3] >= TemplateW(t, e)
                          /\ e.region[4] >= TemplateH(t, e)
                 /\ (tracker.pc = "matching" /\ s.last_pos # None) =>
                       /\ k.result.log[1].tier = "roi"
                       /\ k.result.log[1].region[1] <= s.last_pos[1]
                       /\ k.result.log[1].region[2] <= s.last_pos[2]

\* C30 witness: a template found at the right edge of the frame gets a ROI
\* match, in a region clipped at that edge, and is found there again.
C30_Witness ==
    /\ tracker.pc = "matching"
    /\ \E t \in DoneTasks :
          LET s == tracker.templates[t]
              r == tracker.tasks[t].result
          IN /\ s.last_pos # None
             /\ s.last_pos[1] = tracker.cfg.screen_w - s.w
             /\ s.last_pos[1] > 0
             /\ r.method = "Heuristic"
             /\ r.x = tracker.cfg.screen_w - s.w
             /\ r.log[1].region[3] < tracker.cfg.search_margin * 2 + s.w

(***************************************************************************)
(*                         Claims about GameState                          *)
(***************************************************************************)

\* The entries of a dict a reader holds, as (name, fields) pairs.
Entries(d) == {<<k, store.heap[d[k]]>> : k \in DOMAIN d}

\* C10: with a writer looping on update_entity and a reader looping on
\* get_all_entities / get_found_entities, no read raises, and every entry of
\* a dict a reader got or is building is, field for field, what one
\* update_entity call was given for that name; get_found_entities returns
\* found entries only.
C10_ReadersSeeWholeUpdates ==
    /\ ~store.reader.raised
    /\ Entries(store.reader.result) \subseteq store.written
    /\ Entries(store.reader.acc) \subseteq store.written
    /\ (store.reader.call = "get_found_entities" /\ store.reader.pc \in {"release", "idle"}) =>
          \A k \in DOMAIN store.reader.result : store.heap[store.reader.result[k]].found

\* C10 witness: the reader holds a snapshot of both entities while the writer,
\* in its third call, has built a new dict and is about to store it.
C10_Witness ==
    /\ store.reader.pc = "idle"
    /\ DOMAIN store.reader.result = Names
    /\ store.writer.n >= 2
    /\ store.writer.pc = "store"

\* C11: what a read returned is not the store's live structure: the table
\* holds, for every name, exactly the fields some update_entity call was
\* given for it, whatever a caller writes into the dicts it got from
\* get_all_entities, get_found_entities or get_entity; and the content of a
\* returned dict changes only by the caller's own writes, never by a later
\* update_entity.
C11_ReadsDoNotAlias ==
    /\ \A n \in DOMAIN store.entities : <<n, store.heap[store.entities[n]]>> \in store.written
    /\ Deref(store.heap, store.reader.result) = store.reader.seen

(***************************************************************************)
(*                       Claims about TrackerService                       *)
(***************************************************************************)

\* The tracking threads that have not ended.
AliveThreads == {th \in DOMAIN service.threads : service.threads[th].pc \notin {"exited", "failed"}}

\* C12: start() called while the service is running creates no thread; a
\* stop() call, before or after any start(), makes at most one join; and a
\* stop() whose join timed out reports the timeout (it prints something
\* other than its usual "Stopped") before it returns.
C12_StartStopIdempotent ==
    /\ (service.caller.op = "start" /\ service.caller.was_running) =>
          Len(service.threads) = service.caller.created_before
    /\ service.caller.op = "stop" =>
          /\ service.caller.joins <= 1
          /\ Len(service.threads) = service.caller.created_before
          /\ ~service.running
    /\ (service.caller.op = "stop" /\ service.caller.pc = "idle" /\ service.caller.timed_out) =>
          \E i \in DOMAIN service.caller.out : service.caller.out[i] # "Stopped"

\* C13: when a template cannot be loaded, start() raises to its caller, the
\* service never has running = True, and main() never goes on to the run
\* loop.
C13_MissingAssetAbortsStartup ==
    ~service.assets_ok =>
        /\ ~service.running
        /\ ~service.entered
        /\ (service.caller.op = "start" /\ service.caller.pc = "idle") => service.caller.raised

\* C22: no attribute of the service (running, frame_count) is read or written
\* by more than one thread, and a thread that is inside a method of the store
\* holds the store's lock.
C22_StoreIsOnlySharedState ==
    /\ \A attr \in DOMAIN service.users : Cardinality(service.users[attr]) <= 1
    /\ store.writer.pc # "idle" => store.lock = "writer"
    /\ store.reader.pc # "idle" => store.lock = "reader"

\* The tracking threads inside their loop: constructed, not yet shut down.
LoopingThreads ==
    {th \in DOMAIN service.threads :
        service.threads[th].pc \in {"top", "find", "publish", "update", "pace"}}

\* C28: whatever start() and stop() calls were made, at most one tracking
\* thread is alive, and at most one is in its loop publishing into the store.
C28_OneTrackingThread ==
    /\ Cardinality(AliveThreads) <= 1
    /\ Cardinality(LoopingThreads) <= 1

\* The cycle of the tracking loop that published the object of reference ref:
\* one thread makes every update_entity call, one per template and cycle, in
\* the order of the table, and the reference is the number of the call.
CycleOf(ref) == (ref - 1) \div Len(ServiceNames) + 1
AllNames == {ServiceNames[i] : i \in DOMAIN ServiceNames}

\* C20: the dict a get_all_entities or get_found_entities call returned is the
\* state one completed cycle of the tracking loop left: its observations were
\* all published by the same cycle, and get_all_entities returns an
\* observation of every template once anything was published.
C20_SnapshotOfOneCycle ==
    LET snap == store.reader.result
    IN /\ \A k1, k2 \in DOMAIN snap : CycleOf(snap[k1]) = CycleOf(snap[k2])
       /\ (store.reader.call = "get_all_entities" /\ store.reader.pc \in {"release", "idle"})
             => DOMAIN snap \in {{}, AllNames}

\* The observation the store holds under a name, None when it holds none.
Observation(name) ==
    IF name \in DOMAIN store.entities THEN store.heap[store.entities[name]] ELSE None

\* The tracking thread has published every result of its cycle.
Published(th) ==
    \/ service.threads[th].pc = "pace"
    \/ service.threads[th].pc = "publish" /\ service.threads[th].idx > Len(ServiceNames)

\* C26: while the matchers of a cycle run, no template's last_pos and no
\* observation of the store changes; when the cycle's results have been
\* published, update_entity has been called once per template and cycle, and
\* the store holds, under each template's name, exactly the fields of the
\* result that template's matcher returned in this cycle (nothing of an older
\* observation), in whatever order the matchers ran.
C26_Published ==
    \A th \in DOMAIN service.threads :
        /\ service.threads[th].pc = "finding" =>
              \A t \in Templates :
                 tracker.pc = "matching" =>
                    tracker.templates[t].last_pos =
                       (IF tracker.tasks[t].prev.found
                        THEN <<tracker.tasks[t].prev.x, tracker.tasks[t].prev.y>> ELSE None)
        /\ Published(th) =>
              /\ store.writer.n = Len(ServiceNames) * (service.frame_count
                                     + (IF service.threads[th].pc = "publish" THEN 1 ELSE 0))
              /\ \A i \in DOMAIN ServiceNames :
                    /\ Observation(ServiceNames[i]) = PublishArgs(tracker.tasks[i - 1].result)
                    /\ tracker.tasks[i - 1].result.id = i - 1

C26_CycleAtomicPerTemplate ==
    /\ []C26_Published
    /\ [][(tracker.pc = "matching" /\ tracker'.pc = "matching") =>
             /\ tracker'.templates = tracker.templates
             /\ store' = store]_vars

\* C26 witness: the second cycle has been published; the two templates had
\* different results, both different from those of the first cycle.
C26_Witness ==
    /\ service.frame_count = 2
    /\ \E th \in DOMAIN service.threads : service.threads[th].pc = "pace"
    /\ tracker.cfg.executor
    /\ Observation("slime").found /\ Observation("slime").method = "Heuristic"
    /\ ~Observation("bat").found
    /\ Len(tracker.tasks[1].result.log) >= 2

(***************************************************************************)
(*                        Claims about frame pacing                        *)
(***************************************************************************)

\* The time the pacing step spent sleeping: nothing when time.sleep was not
\* called.
SleepDuration == IF pacing.slept = NoSleep THEN 0 ELSE pacing.slept
Budget == pacing.frame_time

\* C19: whatever time the work of a frame or cycle took, the pacing step
\* sleeps max(0, frame budget - elapsed): never a negative time, never more
\* than one frame budget, and time.sleep is not called when the work took the
\* whole budget or more.
C19_PacingSleep ==
    pacing.pc = "slept" =>
        /\ SleepDuration = Max(0, Budget - pacing.elapsed)
        /\ SleepDuration >= 0
        /\ SleepDuration <= Budget
        /\ pacing.elapsed >= Budget => pacing.slept = NoSleep
        /\ pacing.slept # NoSleep => pacing.slept > 0

\* C19 witness: the work overran the budget and the pacing step did not sleep.
C19_Witness ==
    /\ pacing.pc = "slept"
    /\ pacing.elapsed > Budget
    /\ pacing.slept = NoSleep

\* C19 witness, second case: the work took part of the budget and the pacing
\* step slept for the rest.
C19_WitnessSlept ==
    /\ pacing.pc = "slept"
    /\ pacing.elapsed > 0
    /\ pacing.slept = Budget - pacing.elapsed
    /\ pacing.slept > 0

(***************************************************************************)
(*                   Claims about the end-to-end scenario                  *)
(***************************************************************************)

\* The frames of the example: the target at (800,400) scoring 0.92, then at
\* (820,400) scoring at least the threshold, then no target.
Frame1(e) == e.sighting.present /\ e.sighting.x = 800 /\ e.sighting.y = 400
                /\ e.sighting.score = 92
Frame2(e) == e.sighting.present /\ e.sighting.x = 820 /\ e.sighting.y = 400
                /\ e.sighting.score >= SceneConfig.confidence
Frame3(e) == ~e.sighting.present

\* Cycles k, k+1, k+2 of the log show the three frames of the example.
Example(k) ==
    /\ k + 2 <= Len(scene.log)
    /\ Frame1(scene.log[k]) /\ Frame2(scene.log[k + 1]) /\ Frame3(scene.log[k + 2])

Observed(x, y, method) == [x |-> x, y |-> y, found |-> TRUE, method |-> method]

\* last_pos is known and the template at (x, y) lies inside the ROI around it.
NearLast(last_pos, x, y) ==
    /\ last_pos # None
    /\ LET roi == SceneRoi([SceneTemplate EXCEPT !.last_pos = last_pos], SceneConfig)
       IN /\ roi[1] <= x /\ x + SlimeW <= roi[1] + roi[3]
          /\ roi[2] <= y /\ y + SlimeH <= roi[2] + roi[4]

\* C21 as stated: over any three consecutive cycles showing the frames of the
\* example, the observation published in frame 1 is (800,400) found and tagged
\* Heuristic, that of frame 2 is (820,400) found via the heuristic tier, and
\* in frame 3 the observation has found = false and last_pos is cleared.
C21_AsStated ==
    \A k \in 1..SceneCycles :
        Example(k) =>
            /\ scene.log[k].obs = Observed(800, 400, "Heuristic")
            /\ scene.log[k + 1].obs = Observed(820, 400, "Heuristic")
            /\ ~scene.log[k + 2].obs.found
            /\ scene.log[k + 2].after = None

\* C21, amended: frame 1 is tagged Heuristic when last_pos was known before
\* it and the target lies inside the ROI around it; when it was not (the
\* tracker's first cycle, or a target that was lost or far away) the same
\* position is published tagged Pyramid, provided the coarse score reaches 0.9
\* of the threshold. Either way frame 2 is found at (820,400) by the
\* heuristic tier alone, and frame 3 publishes found = false at (0,0) and
\* clears last_pos.
C21_EndToEnd ==
    \A k \in 1..SceneCycles :
        Example(k) =>
            LET e1 == scene.log[k]
                e2 == scene.log[k + 1]
                e3 == scene.log[k + 2]
            IN /\ NearLast(e1.before, 800, 400) =>
                     e1.obs = Observed(800, 400, "Heuristic") /\ e1.tiers = <<"roi">>
               /\ (~NearLast(e1.before, 800, 400)
                     /\ e1.sighting.coarse * CoarseDen >= SceneConfig.confidence * CoarseNum) =>
                     e1.obs = Observed(800, 400, "Pyramid")
               /\ e1.obs.found =>
                     /\ e1.after = <<800, 400>>
                     /\ e2.obs = Observed(820, 400, "Heuristic")
                     /\ e2.tiers = <<"roi">>
               /\ e3.obs = [x |-> 0, y |-> 0, found |-> FALSE, method |-> "Not Found"]
               /\ e3.after = None
               /\ scene.pc = "find" /\ k + 2 = Len(scene.log) =>
                     /\ Observation(ServiceNames[1]) = e3.obs
                     /\ scene.template.last_pos = None

\* C21 witness: the three frames of the example right after a cycle that found
\* the target nearby; all three are published, the first two by the
\* heuristic tier.
C21_Witness ==
    /\ Len(scene.log) = 4
    /\ scene.pc = "find"
    /\ Example(2)
    /\ NearLast(scene.log[2].before, 800, 400)
    /\ scene.log[2].obs.method = "Heuristic"
    /\ scene.log[3].obs = Observed(820, 400, "Heuristic")
    /\ ~Observation(ServiceNames[1]).found

\* C21 witness: the three frames of the example are the tracker's first
\* three cycles; frame 1 is published tagged Pyramid.
C21_WitnessFirstCycle ==
    /\ Example(1)
    /\ scene.log[1].before = None
    /\ scene.log[1].obs = Observed(800, 400, "Pyramid")
    /\ scene.log[3].after = None


(***************************************************************************)
(*               Claims about the cleanup of a fight attempt               *)
(***************************************************************************)

\* Both threads are out of the Actions instance: the runner thread has ended
\* and the cleanup's release_all has returned or raised.
RaceOver == \A t \in RaceThreads : race.th[t].pc \in {"done", "raised"}

\* C29: whatever the interleaving of the runner thread (policy, flush, final
\* release_all) with the release_all of the cleanup, no call raises, and once
\* the runner has ended and the cleanup has returned no key and no mouse
\* button is physically down and the held-key mirror is empty.
C29_CleanupLeavesNothingDown ==
    /\ \A t \in RaceThreads : race.th[t].pc # "raised"
    /\ RaceOver => race.down = {} /\ ~race.button /\ HeldKeys(race) = {}

\* C29, second half alone: both calls have returned without raising, and a
\* key or the button is still down.
C29_NothingDownWhenBothReturned ==
    (\A t \in RaceThreads : race.th[t].pc = "done") => race.down = {} /\ ~race.button

=============================================================================
